---------------------------- MODULE Spec2Model ----------------------------
(***************************************************************************)
(* Seller Hub: the fee provider (lib/fees), the payout calculator, the     *)
(* add/edit listing modals and the admin "create sale" action.             *)
(*                                                                         *)
(* Numbers.  The program computes with JavaScript numbers.  The model uses *)
(* exact arithmetic: an amount (price, fee_fixed) is an integer number of  *)
(* euros, a fee_percent fraction f is the integer f * PctDen, and a payout *)
(* is the integer payout * PctDen.  So fee_percent 0.2 is 20, and the      *)
(* payout 75 is 7500.                                                      *)
(***************************************************************************)
EXTENDS Integers, Sequences, FiniteSets, TLC

\* ------------------------------------------------------------------ bounds
MaxPrice == 100
MaxFeeFixed == 9
MaxCalls == 3
MaxFetches == 2
MaxSaleCalls == 2
MaxAuthEvents == 2
MaxListenerFetches == 1
MaxMounts == 3
MaxSearches == 2

\* --------------------------------------------------------------- constants
\* The denominator of the fee_percent fraction (0.2 = 20 / PctDen).
PctDen == 100
\* The hardcoded fallback { fee_percent: 0.2, fee_fixed: 5 }.
DefaultFeePercent == 20
DefaultFeeFixed == 5

VARIABLES
  \* the payout calculator applied to arbitrary arguments
  cPrice, cFeePercent, cFeeFixed, cResult, cDone,
  \* the hosted backend: tables admin_settings and user_products
  admin_settings, user_products,
  \* lib/fees: the module-level cache and the getFees() calls of the process
  cachedSettings, feeCalls,
  \* Dashboard: position of fetchUserAndProducts, and its state
  dashPc, dashFees, products, dashError,
  \* AddProductModal: props, state and requests in flight
  addOpen, addSelected, addSizes, addSize, addNewPrice, addFees, addLoading,
  addError, addSizeReqs, addSubmit,
  \* EditProductModal: props, state and requests in flight
  editOpen, editingProduct, editInst, editNewPrice, editIsPriceValid,
  editFees, editLoading, editError, editPriceColor, editMarket,
  editMarketReqs, editSubmit,
  \* history: the last listing write the add or edit flow has completed
  lastWrite,
  \* the hosted backend: table user_sales
  user_sales,
  \* AdminDashboard: state, user_products requests in flight, and the
  \* handleCreateSale calls of the process
  adminPc, isAdmin, adminLoading, adminProducts, adminError, successMessage,
  processingId, adminFetches, saleCalls,
  \* supabase.auth: the user of the current session
  session,
  \* App: state, and the checkAdminStatus calls of the process
  appUser, appIsAdmin, appChecks,
  \* Dashboard: the mounted instance, the user state, the market prices and
  \* the fetchProducts calls of the auth listener
  dashInst, dashUser, marketPrices, fpCalls,
  \* Dashboard: the handleDeleteProduct call in flight
  delCall,
  \* the hosted backend: table profiles
  profiles,
  \* Profile: position of getProfile, the user it got, and the profile state
  profPc, profUser, profile,
  \* Sales: position of fetchUserAndSales, the user it got, and the list
  salesPc, salesUser, sales,
  \* AddProductModal: the catalog search (term, results, the pending
  \* debounce timer and the search requests of the process)
  searchTerm, existingProducts, searchTimer, searchCalls,
  \* App: the loading state and the location of the router
  appLoading, location

calcVars == <<cPrice, cFeePercent, cFeeFixed, cResult, cDone>>
dbVars == <<admin_settings, user_products>>
feeVars == <<cachedSettings, feeCalls>>
dashVars == <<dashPc, dashFees, products, dashError>>
addVars == <<addOpen, addSelected, addSizes, addSize, addNewPrice, addFees,
             addLoading, addError, addSizeReqs, addSubmit>>
editVars == <<editOpen, editingProduct, editInst, editNewPrice,
              editIsPriceValid, editFees, editLoading, editError,
              editPriceColor, editMarket, editMarketReqs, editSubmit>>
sellerVars == <<admin_settings, feeVars, dashVars, addVars, editVars, lastWrite>>
adminVars == <<user_sales, adminPc, isAdmin, adminLoading, adminProducts,
               adminError, successMessage, processingId, adminFetches,
               saleCalls>>

appVars == <<appUser, appIsAdmin, appChecks>>
loadVars == <<dashInst, dashUser, marketPrices, fpCalls, delCall>>
profVars == <<profPc, profUser, profile>>
salesVars == <<salesPc, salesUser, sales>>
screenVars == <<profiles, profVars, salesVars>>
sessVars == <<session, appVars, loadVars, screenVars>>

searchVars == <<searchTerm, existingProducts, searchTimer, searchCalls>>

routeVars == <<appLoading, location>>

vars == <<calcVars, user_products, sellerVars, adminVars, sessVars, searchVars,
          routeVars>>

\* ------------------------------------------------------ payout calculator
\* A mutant: the fixed fee is added instead of subtracted.
calculatePayoutFeeAdded(price, feePercent, feeFixed) ==
  price * (PctDen - feePercent) + feeFixed * PctDen

\* A mutant: the percentage fee is added to the price.
calculatePayoutPercentAdded(price, feePercent, feeFixed) ==
  price * (PctDen + feePercent) - feeFixed * PctDen

\* A mutant: the payout is floored at zero.
calculatePayoutClamped(price, feePercent, feeFixed) ==
  IF price * (PctDen - feePercent) - feeFixed * PctDen < 0
    THEN 0
    ELSE price * (PctDen - feePercent) - feeFixed * PctDen

\* fees.ts: return price * (1 - feePercent) - feeFixed;   (result * PctDen)
calculatePayout(price, feePercent, feeFixed) ==
  price * (PctDen - feePercent) - feeFixed * PctDen

\* The valid domain of the calculator.
CalcPrices == 0 .. MaxPrice
CalcPercents == 0 .. PctDen
CalcFixed == 0 .. MaxFeeFixed

\* ----------------------------------------------------------------- values
\* null, for values that are objects.
NULL == [null |-> TRUE]
\* null, for an error or success message.
NoMsg == "null"
\* null, for a number (currentMarketPrice).
NoPrice == 0 - 1

\* Strings are written in ASCII (Vypredane for Vypredané, and so on).

\* The signed-in seller.
SellerId == "u1"

\* Another user, who is an administrator.
AdminId == "a1"

\* user.email of the auth identity of a user.
AuthEmail(userId) == userId \o "@auth"

\* useState<IProfile>({ first_name: '', ..., email: '', ... }): the fields of
\* the profile state the model follows.
InitialProfile == [first_name |-> "", email |-> ""]

\* The ids of the rows of admin_users.
admin_users == {AdminId}

\* Rows of the products table (the catalog).
Products ==
  { [id |-> "p1", name |-> "n1", image_url |-> "i1", sku |-> "s1"],
    [id |-> "p2", name |-> "n2", image_url |-> "i2", sku |-> "s2"] }

\* Rows of the product_sizes table.
product_sizes ==
  { [id |-> 1, product_id |-> "p1", size |-> "42", price |-> 20, status |-> "Skladom"],
    [id |-> 2, product_id |-> "p1", size |-> "42", price |-> 10, status |-> "Skladom"],
    [id |-> 3, product_id |-> "p1", size |-> "43", price |-> 10, status |-> "Vypredane"],
    [id |-> 4, product_id |-> "p2", size |-> "42", price |-> 20, status |-> "Skladom"],
    [id |-> 5, product_id |-> "p", size |-> "1-42", price |-> 30, status |-> "Skladom"],
    [id |-> 6, product_id |-> "p-1", size |-> "42", price |-> 50, status |-> "Vypredane"],
    [id |-> 7, product_id |-> "p0", size |-> "42", price |-> 0, status |-> "Skladom"] }

\* The admin_settings rows an administrator may store.
SettingsRows ==
  { [fee_percent |-> 50, fee_fixed |-> 8], [fee_percent |-> 10, fee_fixed |-> 3] }

\* What the seller may type into a price input.
PriceInputs == {"", "0", "10", "20"}

\* JavaScript's parseFloat on the strings of the model (NaN: nan = TRUE).
parseFloat(str) ==
  CASE str = "10" -> [nan |-> FALSE, val |-> 10]
    [] str = "20" -> [nan |-> FALSE, val |-> 20]
    [] str = "0" -> [nan |-> FALSE, val |-> 0]
    [] str = "42" -> [nan |-> FALSE, val |-> 42]
    [] str = "43" -> [nan |-> FALSE, val |-> 43]
    [] OTHER -> [nan |-> TRUE, val |-> 0]

\* Number.prototype.toString on the prices of the model.
toString(n) ==
  CASE n = 10 -> "10"
    [] n = 20 -> "20"
    [] n = 0 -> "0"
    [] OTHER -> "?"

\* The fees object literal { fee_percent: 0.2, fee_fixed: 5 }, allocated as
\* object number ref.
DefaultFees(ref) ==
  [ref |-> ref, fee_percent |-> DefaultFeePercent, fee_fixed |-> DefaultFeeFixed]

\* useState<Fees>({ fee_percent: 0.2, fee_fixed: 5 }): the initial fees state
\* of a component (object 0: no getFees() call returns it).
InitialFees == DefaultFees(0)

\* The listing the seller owns when the process starts.
InitialListing ==
  [id |-> "l0", user_id |-> SellerId, product_id |-> "p1", name |-> "n1",
   size |-> "42", price |-> 20, image_url |-> "i1", original_price |-> 10,
   payout |-> calculatePayout(20, DefaultFeePercent, DefaultFeeFixed),
   sku |-> "s1"]

\* ------------------------------------------------------------ fee provider
NoResponse == [kind |-> "none"]

\* What the request  from('admin_settings').select(...).single()  can answer
\* when the table holds the rows tbl: the row when there is exactly one, the
\* no-row error (PGRST116) otherwise; at any time another error, a rejected
\* promise (backend unreachable), or neither data nor error.
SingleResponses(tbl) ==
  (IF Cardinality(tbl) = 1
     THEN {[kind |-> "row", row |-> r] : r \in tbl}
     ELSE {[kind |-> "norow"]})
  \cup {[kind |-> "error"], [kind |-> "throw"], [kind |-> "nodata"]}

\* A mutant: the fallback object is stored in the cache.
FeesResultCachingDefault(resp, ref) ==
  IF resp.kind = "row"
    THEN [ret |-> [ref |-> ref, fee_percent |-> resp.row.fee_percent,
                   fee_fixed |-> resp.row.fee_fixed],
          cache |-> TRUE]
    ELSE [ret |-> DefaultFees(ref), cache |-> TRUE]

\* A mutant: an error answers with zero fees.
FeesResultZeroOnError(resp, ref) ==
  IF resp.kind = "row"
    THEN [ret |-> [ref |-> ref, fee_percent |-> resp.row.fee_percent,
                   fee_fixed |-> resp.row.fee_fixed],
          cache |-> TRUE]
    ELSE IF resp.kind = "nodata"
      THEN [ret |-> DefaultFees(ref), cache |-> FALSE]
      ELSE [ret |-> [ref |-> ref, fee_percent |-> 0, fee_fixed |-> 0],
            cache |-> FALSE]

\* getFees() after its await: the object it returns (allocated as object
\* number ref) and whether it stored that object in cachedSettings.
FeesResult(resp, ref) ==
  IF resp.kind \in {"error", "norow", "throw"}
    THEN \* if (error) throw error;  catch: return the default
         [ret |-> DefaultFees(ref), cache |-> FALSE]
    ELSE IF resp.kind = "row"
      THEN [ret |-> [ref |-> ref, fee_percent |-> resp.row.fee_percent,
                     fee_fixed |-> resp.row.fee_fixed],
            cache |-> TRUE]
      ELSE \* Default values if no settings found
           [ret |-> DefaultFees(ref), cache |-> FALSE]

\* A mutant: every call fetches, the cache is never consulted.
GetFeesEntryNoCache(caller, inst) ==
  [caller |-> caller, inst |-> inst, pc |-> "requested", fetched |-> TRUE,
   resp |-> NoResponse, ret |-> NULL, fallback |-> FALSE]

\* getFees() up to its first await, as the call record it leaves:
\* if (cachedSettings) return cachedSettings;  otherwise the request is sent.
GetFeesEntry(caller, inst) ==
  IF cachedSettings # NULL
    THEN [caller |-> caller, inst |-> inst, pc |-> "returned",
          fetched |-> FALSE, resp |-> NoResponse, ret |-> cachedSettings,
          fallback |-> FALSE]
    ELSE [caller |-> caller, inst |-> inst, pc |-> "requested",
          fetched |-> TRUE, resp |-> NoResponse, ret |-> NULL,
          fallback |-> FALSE]

\* A call of getFees() by a component: the call is recorded; on a cache hit
\* the promise is already resolved and the caller's continuation runs with
\* the cached object before any other event.
CallGetFees(caller, inst) ==
  /\ Len(feeCalls) < MaxCalls
  /\ feeCalls' = Append(feeCalls, GetFeesEntry(caller, inst))
  /\ UNCHANGED cachedSettings

\* The fees state of a component after it called getFees(): the returned
\* object on a cache hit, unchanged while the request is in flight.
FeesAfterCall(current, caller, inst) ==
  IF GetFeesEntry(caller, inst).pc = "returned"
    THEN GetFeesEntry(caller, inst).ret
    ELSE current

\* The backend answers the admin_settings request of call i.
ServeFees(i) ==
  /\ feeCalls[i].pc = "requested"
  /\ \E resp \in SingleResponses(admin_settings) :
       feeCalls' = [feeCalls EXCEPT ![i].pc = "served", ![i].resp = resp]
  /\ UNCHANGED <<calcVars, searchVars, routeVars, sessVars, adminVars, dbVars, cachedSettings, dashVars, addVars,
                 editVars, lastWrite>>

\* The edit modal instance inst is still mounted.
EditMounted(inst) == editingProduct # NULL /\ editInst = inst

\* getFees() call i continues after its await with the answer resp and
\* returns, and the caller's continuation stores the result (Dashboard:
\* setFees, setLoading(false); the modals: setFees).
ContinueGetFees(i, resp) ==
  /\ LET res == FeesResult(resp, i)
         c == feeCalls[i].caller
     IN /\ feeCalls' = [feeCalls EXCEPT ![i].pc = "returned",
                                        ![i].resp = NoResponse,
                                        ![i].ret = res.ret,
                                        ![i].fallback = resp.kind # "row"]
        /\ cachedSettings' = IF res.cache THEN res.ret ELSE cachedSettings
        /\ dashFees' = IF c = "Dashboard" THEN res.ret ELSE dashFees
        /\ dashPc' = IF c = "Dashboard" THEN "ready" ELSE dashPc
        /\ addFees' = IF c = "AddProductModal" THEN res.ret ELSE addFees
        /\ editFees' = IF c = "EditProductModal" /\ EditMounted(feeCalls[i].inst)
                         THEN res.ret ELSE editFees
  /\ UNCHANGED <<calcVars, searchVars, routeVars, sessVars, adminVars, dbVars, products, dashError, lastWrite,
                 addOpen, addSelected, addSizes, addSize, addNewPrice,
                 addLoading, addError, addSizeReqs, addSubmit,
                 editOpen, editingProduct, editInst, editNewPrice,
                 editIsPriceValid, editLoading, editError, editPriceColor,
                 editMarket, editMarketReqs, editSubmit>>

\* The answer the backend gave to call i reaches the process.
ReturnFees(i) ==
  /\ feeCalls[i].pc = "served"
  /\ ContinueGetFees(i, feeCalls[i].resp)

\* The backend answers call i and the answer reaches the process, in one
\* step (the same as ServeFees then ReturnFees while admin_settings does not
\* change).
AnswerFees(i) ==
  /\ feeCalls[i].pc = "requested"
  /\ \E resp \in SingleResponses(admin_settings) : ContinueGetFees(i, resp)

\* An administrator changes the admin_settings table (outside this process).
SettingsChange ==
  /\ \E tbl \in SUBSET SettingsRows :
       /\ tbl # admin_settings
       /\ admin_settings' = tbl
  /\ UNCHANGED <<calcVars, searchVars, routeVars, sessVars, adminVars, user_products, feeVars, dashVars, addVars,
                 editVars, lastWrite>>

\* ---------------------------------------------------------------- Dashboard
\* The ids of the listings, in the order the backend returns their rows.
ListingIds == <<"l0", "l1">>

\* The rows of a select as a list (rows from position k of ListingIds on).
RECURSIVE RowsFrom(_, _)
RowsFrom(rows, k) ==
  IF k > Len(ListingIds) THEN <<>>
  ELSE (IF \E r \in rows : r.id = ListingIds[k]
          THEN <<CHOOSE r \in rows : r.id = ListingIds[k]>>
          ELSE <<>>) \o RowsFrom(rows, k + 1)

RowsAsList(rows) == RowsFrom(rows, 1)

\* A mutant: the rows are not filtered by their owner.
SelectAll(rows, userId) == rows

\* .select('*').eq('user_id', userId): the rows of a table owned by a user.
SelectOwn(rows, userId) == {r \in rows : r.user_id = userId}

\* The key of a listing in marketPrices: `${product.product_id}-${product.size}`
MarketKey(product) == product.product_id \o "-" \o product.size

\* const pricesMap: Record<string, number> = {}
EmptyPrices == [key \in {} |-> 0]

\* The lowest in-stock price request of fetchProducts for a listing:
\* .eq('product_id').eq('size').eq('status', 'Skladom').order('price')
\* .limit(1).single()  (NoPrice: no such row, priceData is null).
LowestInStock(product) ==
  LET rows == {r \in product_sizes : /\ r.product_id = product.product_id
                                     /\ r.size = product.size
                                     /\ r.status = "Skladom"}
  IN IF rows = {} THEN NoPrice
     ELSE (CHOOSE r \in rows : \A y \in rows : r.price <= y.price).price

\* if (priceData) pricesMap[key] = priceData.price
RecordPrice(pricesMap, product, price) ==
  IF price = NoPrice THEN pricesMap
  ELSE [key \in DOMAIN pricesMap \cup {MarketKey(product)} |->
          IF key = MarketKey(product) THEN price ELSE pricesMap[key]]

\* The loop of fetchProducts from position k of the list on, every request
\* answered: the pricesMap that results.
RECURSIVE PricesFrom(_, _, _)
PricesFrom(list, k, pricesMap) ==
  IF k > Len(list) THEN pricesMap
  ELSE PricesFrom(list, k + 1,
                  RecordPrice(pricesMap, list[k], LowestInStock(list[k])))

\* fetchUserAndProducts: supabase.auth.getUser() answers.  With a user
\* (setUser) the listing request is sent; an error ends loading; without a
\* user the Dashboard navigates away.
DashGetUser ==
  /\ dashPc = "getUser"
  /\ \E outcome \in {"user", "error", "nouser"} :
       /\ outcome = "user" => session # NoMsg
       /\ dashPc' = CASE outcome = "user" -> "fetchProducts"
                      [] outcome = "error" -> "ready"
                      [] OTHER -> "left"
       /\ dashUser' = IF outcome = "user" THEN session ELSE dashUser
  /\ UNCHANGED <<calcVars, searchVars, routeVars, adminVars, dbVars, feeVars, dashFees, products, dashError,
                 addVars, editVars, lastWrite, session, appVars, dashInst,
                 marketPrices, fpCalls, screenVars, delCall>>

\* fetchProducts(user.id) answers: the user's rows replace the list and the
\* market prices of the rows replace marketPrices, or the error message is
\* set.  fetchUserAndProducts then calls getFees().
DashFetchProducts ==
  /\ dashPc = "fetchProducts"
  /\ \E ok \in BOOLEAN :
       IF ok
         THEN /\ products' = RowsAsList(SelectOwn(user_products, dashUser))
              /\ marketPrices' = PricesFrom(products', 1, EmptyPrices)
              /\ UNCHANGED dashError
         ELSE /\ dashError' = "Doslo k chybe pri nacitavani produktov."
              /\ UNCHANGED <<products, marketPrices>>
  /\ CallGetFees("Dashboard", 0)
  /\ dashFees' = FeesAfterCall(dashFees, "Dashboard", 0)
  /\ dashPc' = IF GetFeesEntry("Dashboard", 0).pc = "returned"
                 THEN "ready" ELSE "getFees"
  /\ UNCHANGED <<calcVars, searchVars, routeVars, adminVars, dbVars, addVars, editVars, lastWrite,
                 session, appVars, dashInst, dashUser, fpCalls, screenVars, delCall>>

\* The answers of the admin_users request of checkAdminStatus(userId):
\* the row when the table holds one for the user, the no-row error
\* (PGRST116) when it does not; at any time another error or a rejected
\* request.
AdminCheckAnswers(userId) ==
  {IF userId \in admin_users THEN "row" ELSE "norow", "error", "throw"}

\* App.checkAdminStatus after its await: setIsAdmin(false) on an error other
\* than PGRST116 and in the catch, setIsAdmin(!!data) otherwise.
IsAdminAfter(answer) == answer = "row"

\* The Dashboard is mounted.
DashMounted == dashPc # "left"

\* supabase.auth emits an event with the session of the same user (initial
\* session, token refreshed, signed in again).  App's listener: setUser and
\* checkAdminStatus(currentUser.id).  The Dashboard's listener, when the
\* Dashboard is mounted: setUser(session.user) and
\* fetchProducts(session.user.id), whose request is sent.
AuthRefresh ==
  /\ session # NoMsg
  /\ Len(appChecks) < MaxAuthEvents /\ Len(fpCalls) < MaxListenerFetches
  /\ appUser' = session
  /\ appChecks' = Append(appChecks, [userId |-> session, pc |-> "sent"])
  /\ IF DashMounted
       THEN /\ dashUser' = session
            /\ fpCalls' = Append(fpCalls,
                 [userId |-> session, inst |-> dashInst, pc |-> "rows",
                  list |-> <<>>, k |-> 1, pricesMap |-> EmptyPrices])
       ELSE UNCHANGED <<dashUser, fpCalls>>
  /\ UNCHANGED <<calcVars, searchVars, routeVars, user_products, sellerVars, adminVars, session,
                 appIsAdmin, dashInst, marketPrices, screenVars, delCall>>

\* fetchProducts call c of the listener after its first await, with the
\* answer of the backend (ok, list): the rows of the user replace the list
\* and the loop over them starts (an empty list ends it at once, with
\* setMarketPrices({})), or the error is set.  A call of a Dashboard that is
\* no longer mounted changes no state.
ContinueFetchProducts(c, ok, list) ==
  /\ LET live == DashMounted /\ fpCalls[c].inst = dashInst
     IN IF ok
          THEN /\ fpCalls' = [fpCalls EXCEPT
                    ![c].pc = IF list = <<>> THEN "done" ELSE "prices",
                    ![c].list = list]
               /\ products' = IF live THEN list ELSE products
               /\ marketPrices' = IF live /\ list = <<>>
                                    THEN EmptyPrices ELSE marketPrices
               /\ UNCHANGED dashError
          ELSE /\ fpCalls' = [fpCalls EXCEPT ![c].pc = "done"]
               /\ dashError' = IF live
                                 THEN "Doslo k chybe pri nacitavani produktov."
                                 ELSE dashError
               /\ UNCHANGED <<products, marketPrices>>
  /\ UNCHANGED <<calcVars, searchVars, routeVars, adminVars, dbVars, feeVars, dashPc, dashFees,
                 addVars, editVars, lastWrite, session, appVars, dashInst,
                 dashUser, screenVars, delCall>>

\* The backend answers the user_products request of call c and the answer
\* reaches the process, in one step.
FetchProductsRows(c) ==
  /\ fpCalls[c].pc = "rows"
  /\ \E ok \in BOOLEAN :
       ContinueFetchProducts(c, ok,
         RowsAsList(SelectOwn(user_products, fpCalls[c].userId)))

\* The backend answers the user_products request of call c with the rows the
\* table holds now, or with an error; the answer is on its way.
FetchProductsServe(c) ==
  /\ fpCalls[c].pc = "rows"
  /\ \E ok \in BOOLEAN :
       fpCalls' = [fpCalls EXCEPT
         ![c].pc = IF ok THEN "served" ELSE "failed",
         ![c].list = IF ok
                       THEN RowsAsList(SelectOwn(user_products,
                                                 fpCalls[c].userId))
                       ELSE <<>>]
  /\ UNCHANGED <<calcVars, searchVars, routeVars, user_products, sellerVars, adminVars, session,
                 appVars, dashInst, dashUser, marketPrices, screenVars,
                 delCall>>

\* The answer the backend gave to call c reaches the process.
FetchProductsReturn(c) ==
  /\ fpCalls[c].pc \in {"served", "failed"}
  /\ ContinueFetchProducts(c, fpCalls[c].pc = "served", fpCalls[c].list)

\* One turn of the loop of fetchProducts call c: the lowest in-stock price
\* of the listing at position k is recorded, or the request gives no data;
\* after the last listing, setMarketPrices(pricesMap).
FetchProductsPrice(c) ==
  /\ fpCalls[c].pc = "prices"
  /\ \E price \in {LowestInStock(fpCalls[c].list[fpCalls[c].k]), NoPrice} :
       LET call == fpCalls[c]
           map == RecordPrice(call.pricesMap, call.list[call.k], price)
           last == call.k = Len(call.list)
       IN /\ fpCalls' = [fpCalls EXCEPT
                 ![c].pricesMap = map,
                 ![c].k = call.k + 1,
                 ![c].pc = IF last THEN "done" ELSE "prices"]
          /\ marketPrices' = IF last /\ DashMounted /\ call.inst = dashInst
                               THEN map ELSE marketPrices
  /\ UNCHANGED <<calcVars, searchVars, routeVars, user_products, sellerVars, adminVars, session,
                 appVars, dashInst, dashUser, screenVars, delCall>>

\* The price of a listing in the grid of the Dashboard: the market price
\* known for it (NoPrice: undefined), the indicator, the sign of the delta
\* shown and the delta.
PriceFlag(product, prices) ==
  LET currentMarketPrice == IF MarketKey(product) \in DOMAIN prices
                              THEN prices[MarketKey(product)] ELSE NoPrice
  IN IF currentMarketPrice # NoPrice /\ currentMarketPrice # 0
       THEN IF product.price <= currentMarketPrice
              THEN [priceColor |-> "text-green-600", priceIndicator |-> "green",
                    sign |-> IF product.price < currentMarketPrice
                               THEN "-" ELSE "",
                    delta |-> IF product.price < currentMarketPrice
                                THEN currentMarketPrice - product.price ELSE 0]
              ELSE [priceColor |-> "text-red-600", priceIndicator |-> "red",
                    sign |-> "+",
                    delta |-> product.price - currentMarketPrice]
       ELSE [priceColor |-> "text-gray-900", priceIndicator |-> "",
             sign |-> "", delta |-> 0]

\* ---------------------------------------------------------- AddProductModal
\* .order('price', { ascending: true }): the rows by ascending price (rows
\* of equal price by id).
RECURSIVE OrderByPrice(_)
OrderByPrice(rows) ==
  IF rows = {} THEN <<>>
  ELSE LET r == CHOOSE x \in rows :
                  \A y \in rows : x.price < y.price
                                  \/ (x.price = y.price /\ x.id <= y.id)
       IN <<r>> \o OrderByPrice(rows \ {r})

\* The comparator of the size sort: sizeA - sizeB when both sizes parse as
\* numbers (the sizes of the model all do).
SizeCompare(a, b) ==
  IF ~parseFloat(a.size).nan /\ ~parseFloat(b.size).nan
    THEN parseFloat(a.size).val - parseFloat(b.size).val
    ELSE 0

\* Array.prototype.sort with SizeCompare, which is stable: row r inserted
\* into the sorted list after the rows that do not compare greater.
RECURSIVE InsertBySize(_, _)
InsertBySize(r, list) ==
  IF list = <<>> THEN <<r>>
  ELSE IF SizeCompare(Head(list), r) <= 0
    THEN <<Head(list)>> \o InsertBySize(r, Tail(list))
    ELSE <<r>> \o list

RECURSIVE SortBySize(_)
SortBySize(list) ==
  IF list = <<>> THEN <<>>
  ELSE InsertBySize(list[Len(list)], SortBySize(SubSeq(list, 1, Len(list) - 1)))

\* handleProductSelect's request and sort: the in-stock sizes of a product.
FetchSizes(pid) ==
  SortBySize(OrderByPrice({r \in product_sizes :
                             r.product_id = pid /\ r.status = "Skladom"}))

\* sizes.find((s) => s.size === selectedSize)?.price || 0
recommendedPriceOf(sizes, selectedSize) ==
  IF \E k \in 1 .. Len(sizes) : sizes[k].size = selectedSize
    THEN sizes[CHOOSE k \in 1 .. Len(sizes) :
                 /\ sizes[k].size = selectedSize
                 /\ \A j \in 1 .. k - 1 : sizes[j].size # selectedSize].price
    ELSE 0

\* priceColor of the add modal's render: the markup warning (red) when the
\* valid price typed is above recommendedPrice, green when it is below,
\* neutral otherwise.
AddPriceColor(newPrice, sizes, selectedSize) ==
  IF ~parseFloat(newPrice).nan /\ parseFloat(newPrice).val > 0
    THEN IF parseFloat(newPrice).val > recommendedPriceOf(sizes, selectedSize)
           THEN "text-red-600"
           ELSE IF parseFloat(newPrice).val
                     < recommendedPriceOf(sizes, selectedSize)
             THEN "text-green-600"
             ELSE "text-gray-700"
    ELSE "text-gray-700"

\* A mutant: a negative payout is stored as 0.
computedPayoutFloored(newPrice, fees) ==
  IF parseFloat(newPrice).nan THEN NoPrice
  ELSE IF calculatePayout(parseFloat(newPrice).val, fees.fee_percent,
                          fees.fee_fixed) < 0
    THEN 0
    ELSE calculatePayout(parseFloat(newPrice).val, fees.fee_percent,
                         fees.fee_fixed)

\* computedPayout ?? 0 for a price that is a number: the payout the add
\* modal previews and inserts (NoPrice: computedPayout is null).
computedPayout(newPrice, fees) ==
  IF parseFloat(newPrice).nan THEN NoPrice
  ELSE calculatePayout(parseFloat(newPrice).val, fees.fee_percent,
                       fees.fee_fixed)

\* The position in feeCalls of the latest getFees() call of a component
\* instance (0: it has made none).
LastFeeCall(caller, inst) ==
  LET mine == {k \in 1 .. Len(feeCalls) :
                 feeCalls[k].caller = caller /\ feeCalls[k].inst = inst}
  IN IF mine = {} THEN 0 ELSE CHOOSE k \in mine : \A j \in mine : j <= k

\* An edit modal is shown over the Dashboard.
EditShown == editingProduct # NULL /\ editOpen

\* ILIKE '%term%' on the (lower-case) names of the model: name contains term.
ilike(name, term) ==
  \E i \in 1 .. Len(name) - Len(term) + 1 :
    SubSeq(name, i, i + Len(term) - 1) = term

\* The catalog in the order the backend returns it.
CatalogOrder == <<"p1", "p2">>

\* .from('products').select(...).ilike('name', `%${searchTerm}%`).limit(10)
SearchResults(term) ==
  SelectSeq([k \in 1 .. Len(CatalogOrder) |->
               CHOOSE p \in Products : p.id = CatalogOrder[k]],
            LAMBDA p : ilike(p.name, term))

\* A mutant: a pending timer is not cancelled when the term changes.
TimerAfterChangeKept(timer, term) ==
  IF timer = NULL THEN [term |-> term] ELSE timer

\* The effect on [searchTerm]: the cleanup clears the pending timer and a
\* timer for the new term is set.
TimerAfterChange(timer, term) == [term |-> term]

\* setSearchTerm(term); when the term changes the effect on [searchTerm]
\* runs again.
SetSearchTerm(term) ==
  /\ searchTerm' = term
  /\ searchTimer' = IF term # searchTerm
                      THEN TimerAfterChange(searchTimer, term)
                      ELSE searchTimer
  /\ UNCHANGED <<existingProducts, searchCalls>>

\* The search input's onChange (shown while no product is selected).
SearchType(term) ==
  /\ addOpen /\ addSelected = NULL
  /\ term # searchTerm
  /\ SetSearchTerm(term)
  /\ UNCHANGED <<calcVars, routeVars, user_products, sellerVars, adminVars, sessVars>>

\* if (!searchTerm || searchTerm.length < 2)
TooShort(term) == term = "" \/ Len(term) < 2

\* The debounce timer fires after 300 ms, with the term of the render that
\* set it: a term shorter than 2 characters clears the results, any other
\* term is sent to the backend.
SearchTimerFires ==
  /\ searchTimer # NULL
  /\ searchTimer' = NULL
  /\ IF TooShort(searchTimer.term)
       THEN /\ existingProducts' = <<>>
            /\ UNCHANGED searchCalls
       ELSE /\ Len(searchCalls) < MaxSearches
            /\ searchCalls' = Append(searchCalls,
                 [term |-> searchTimer.term, pc |-> "sent"])
            /\ UNCHANGED existingProducts
  /\ UNCHANGED <<calcVars, routeVars, user_products, sellerVars, adminVars, sessVars,
                 searchTerm>>

\* A mutant: the results of a request are dropped when the term has changed
\* since.
AfterSearchIfCurrent(term, current, list) ==
  IF term = current THEN SearchResults(term) ELSE list

\* setExistingProducts(data || []): the results of the request's term
\* replace the list.
AfterSearch(term, current, list) == SearchResults(term)

\* The answer to search request c arrives: its results replace the list,
\* or the error message is set.
SearchReturn(c) ==
  /\ searchCalls[c].pc = "sent"
  /\ \E ok \in BOOLEAN :
       IF ok
         THEN /\ searchCalls' = [searchCalls EXCEPT ![c].pc = "done"]
              /\ existingProducts' =
                   AfterSearch(searchCalls[c].term, searchTerm,
                               existingProducts)
              /\ UNCHANGED addError
         ELSE /\ searchCalls' = [searchCalls EXCEPT ![c].pc = "failed"]
              /\ addError' = "search request failed"
              /\ UNCHANGED existingProducts
  /\ UNCHANGED <<calcVars, routeVars, user_products, admin_settings, feeVars, dashVars,
                 editVars, lastWrite, adminVars, sessVars, searchTerm,
                 searchTimer, addOpen, addSelected, addSizes, addSize,
                 addNewPrice, addFees, addLoading, addSizeReqs, addSubmit>>


\* setIsAddModalOpen(true); the effect on [isOpen] calls getFees().
AddOpenModal ==
  /\ dashPc = "ready" /\ ~addOpen /\ ~EditShown
  /\ addOpen' = TRUE
  /\ CallGetFees("AddProductModal", 0)
  /\ addFees' = FeesAfterCall(addFees, "AddProductModal", 0)
  /\ UNCHANGED <<calcVars, searchVars, routeVars, sessVars, adminVars, dbVars, dashVars, editVars, lastWrite, addSelected,
                 addSizes, addSize, addNewPrice, addLoading, addError,
                 addSizeReqs, addSubmit>>

\* onClose; the effect on [isOpen] resets the form.
AddClose ==
  /\ addOpen
  /\ addOpen' = FALSE
  /\ addSelected' = NULL
  /\ addSize' = ""
  /\ addNewPrice' = ""
  /\ addError' = NoMsg
  /\ SetSearchTerm("")
  /\ UNCHANGED <<calcVars, routeVars, sessVars, adminVars, dbVars, feeVars, dashVars, editVars, lastWrite,
                 addSizes, addFees, addLoading, addSizeReqs, addSubmit>>

\* handleProductSelect up to its await: a product of the search results is
\* chosen and its sizes are requested.
AddSelectProduct(p) ==
  /\ addOpen /\ addSelected = NULL
  /\ addSelected' = p
  /\ addNewPrice' = ""
  /\ addError' = NoMsg
  /\ addSizeReqs' = addSizeReqs \cup {p.id}
  /\ UNCHANGED <<calcVars, searchVars, routeVars, sessVars, adminVars, dbVars, feeVars, dashVars, editVars, lastWrite,
                 addOpen, addSizes, addSize, addFees, addLoading, addSubmit>>

\* handleProductSelect after its await: the sizes of product pid arrive, or
\* the request fails.
AddSizesResponse(pid) ==
  /\ pid \in addSizeReqs
  /\ addSizeReqs' = addSizeReqs \ {pid}
  /\ \E ok \in BOOLEAN :
       IF ok
         THEN addSizes' = FetchSizes(pid) /\ UNCHANGED addError
         ELSE addError' = "sizes request failed" /\ UNCHANGED addSizes
  /\ UNCHANGED <<calcVars, searchVars, routeVars, sessVars, adminVars, dbVars, feeVars, dashVars, editVars, lastWrite,
                 addOpen, addSelected, addSize, addNewPrice, addFees,
                 addLoading, addSubmit>>

\* handleChangeProduct
AddChangeProduct ==
  /\ addOpen /\ addSelected # NULL
  /\ addSelected' = NULL
  /\ addSize' = ""
  /\ addNewPrice' = ""
  /\ addError' = NoMsg
  /\ SetSearchTerm("")
  /\ UNCHANGED <<calcVars, routeVars, sessVars, adminVars, dbVars, feeVars, dashVars, editVars, lastWrite,
                 addOpen, addSizes, addFees, addLoading, addSizeReqs,
                 addSubmit>>

\* The size select's onChange: one of the listed sizes (or none) is chosen.
AddSelectSize(size) ==
  /\ addOpen /\ addSelected # NULL
  /\ size = "" \/ \E k \in 1 .. Len(addSizes) : addSizes[k].size = size
  /\ size # addSize
  /\ addSize' = size
  /\ addNewPrice' = ""
  /\ UNCHANGED <<calcVars, searchVars, routeVars, sessVars, adminVars, dbVars, feeVars, dashVars, editVars, lastWrite,
                 addOpen, addSelected, addSizes, addFees, addLoading,
                 addError, addSizeReqs, addSubmit>>

\* The price input's onChange.
AddTypePrice(str) ==
  /\ addOpen /\ addSelected # NULL /\ addSize # ""
  /\ str # addNewPrice
  /\ addNewPrice' = str
  /\ UNCHANGED <<calcVars, searchVars, routeVars, sessVars, adminVars, dbVars, feeVars, dashVars, editVars, lastWrite,
                 addOpen, addSelected, addSizes, addSize, addFees,
                 addLoading, addError, addSizeReqs, addSubmit>>

\* A mutant: only a price that is not a number is rejected.
InvalidPriceOnlyNaN(newPrice) == parseFloat(newPrice).nan

\* isNaN(numericNewPrice) || numericNewPrice <= 0
InvalidPrice(newPrice) ==
  parseFloat(newPrice).nan \/ parseFloat(newPrice).val <= 0

\* The listing ids not yet used (uuidv4 returns a fresh id).
FreshIds ==
  {ListingIds[k] : k \in 1 .. Len(ListingIds)}
    \ ({r.id : r \in user_products} \cup {products[k].id : k \in 1 .. Len(products)})

\* handleSubmit up to its first await.  The submit button is enabled; an
\* invalid form sets the error and sends nothing; a valid one sets loading
\* and starts the insert with the values of this render.
AddSubmit ==
  /\ addOpen /\ ~addLoading /\ addSelected # NULL /\ addSize # ""
  /\ addNewPrice # ""
  /\ IF InvalidPrice(addNewPrice)
       THEN /\ addError' = "Prosim, vyberte produkt, velkost a zadajte platnu cenu."
            /\ UNCHANGED <<addLoading, addSubmit>>
       ELSE /\ FreshIds # {}
            /\ addLoading' = TRUE
            /\ addError' = NoMsg
            /\ addSubmit' =
                 [pc |-> "sent", result |-> "none",
                  fees |-> addFees, feeCall |-> LastFeeCall("AddProductModal", 0),
                  preview |-> computedPayout(addNewPrice, addFees),
                  dash |-> dashInst,
                  row |-> [id |-> CHOOSE id \in FreshIds : TRUE,
                           user_id |-> NoMsg,
                           product_id |-> addSelected.id,
                           name |-> addSelected.name,
                           size |-> addSize,
                           price |-> parseFloat(addNewPrice).val,
                           image_url |-> addSelected.image_url,
                           original_price |-> recommendedPriceOf(addSizes, addSize),
                           payout |-> computedPayout(addNewPrice, addFees),
                           sku |-> addSelected.sku]]
  /\ UNCHANGED <<calcVars, searchVars, routeVars, sessVars, adminVars, dbVars, feeVars, dashVars, editVars, lastWrite,
                 addOpen, addSelected, addSizes, addSize, addNewPrice,
                 addFees, addSizeReqs>>

\* The backend answers the submit: getUser() gives no user, or it gives the
\* user of the session, whose id the row gets, and the insert into
\* user_products fails or the row is inserted.
AddSubmitServe ==
  /\ addSubmit # NULL /\ addSubmit.pc = "sent"
  /\ \E result \in {"nouser", "error", "inserted"} :
       LET row == IF result = "nouser" THEN addSubmit.row
                  ELSE [addSubmit.row EXCEPT !.user_id = session]
       IN /\ result # "nouser" => session # NoMsg
          /\ addSubmit' = [addSubmit EXCEPT !.pc = "served",
                                            !.result = result, !.row = row]
          /\ user_products' = IF result = "inserted"
                                THEN user_products \cup {row}
                                ELSE user_products
  /\ UNCHANGED <<calcVars, searchVars, routeVars, sessVars, adminVars, admin_settings, feeVars, dashVars, editVars,
                 lastWrite, addOpen, addSelected, addSizes, addSize,
                 addNewPrice, addFees, addLoading, addError, addSizeReqs>>

\* handleSubmit after its awaits: on success onProductAdded appends the new
\* listing to the Dashboard's list, the form is reset and the modal closed
\* (whose effect resets the form and the error); on failure the error is
\* set.  finally: setLoading(false).
AddSubmitReturn ==
  /\ addSubmit # NULL /\ addSubmit.pc = "served"
  /\ addSubmit' = NULL
  /\ IF ~(DashMounted /\ addSubmit.dash = dashInst)
       THEN UNCHANGED <<addLoading, products, addSelected, addSize,
                        addNewPrice, addOpen, addError, lastWrite,
                        searchVars>>
       ELSE /\ addLoading' = FALSE
            /\ IF addSubmit.result = "inserted"
                 THEN /\ products' = Append(products, addSubmit.row)
                      /\ addSelected' = NULL
                      /\ addSize' = ""
                      /\ addNewPrice' = ""
                      /\ addOpen' = FALSE
                      /\ addError' = IF addOpen THEN NoMsg ELSE addError
                      /\ IF addOpen THEN SetSearchTerm("")
                                    ELSE UNCHANGED searchVars
                      /\ lastWrite' =
                           [kind |-> "add", id |-> addSubmit.row.id,
                            price |-> addSubmit.row.price,
                            payout |-> addSubmit.row.payout,
                            fees |-> addSubmit.fees,
                            preview |-> addSubmit.preview,
                            feeCall |-> addSubmit.feeCall]
                 ELSE /\ addError' = IF addSubmit.result = "nouser"
                                       THEN "User not authenticated"
                                       ELSE "insert failed"
                      /\ UNCHANGED <<products, addSelected, addSize,
                                     addNewPrice, addOpen, lastWrite,
                                     searchVars>>
  /\ UNCHANGED <<calcVars, routeVars, sessVars, adminVars, dbVars, feeVars, dashPc, dashFees, dashError,
                 editVars, addSizes, addFees, addSizeReqs>>

\* --------------------------------------------------------- EditProductModal
\* A mutant: the update also overwrites original_price.
UpdateListingWithOriginal(rows, id, price, payout) ==
  {IF r.id = id
     THEN [r EXCEPT !.price = price, !.payout = payout,
                    !.original_price = price]
     ELSE r : r \in rows}

\* .update({ price, payout }).eq('id', id) on user_products.
UpdateListing(rows, id, price, payout) ==
  {IF r.id = id THEN [r EXCEPT !.price = price, !.payout = payout] ELSE r
     : r \in rows}

\* The market price request of fetchCurrentMarketPrice: the lowest in-stock
\* price of the product and size (NoPrice: no row, .single() reports an error).
MarketPrice(pid, size) ==
  LET rows == {r \in product_sizes :
                 r.product_id = pid /\ r.size = size /\ r.status = "Skladom"}
  IN IF rows = {} THEN NoPrice
     ELSE (CHOOSE r \in rows : \A y \in rows : r.price <= y.price).price

\* currentMarketPrice || (product?.original_price ?? product?.price)
recommendedPrice(market, product) ==
  IF market # NoPrice /\ market # 0 THEN market
  ELSE IF product.original_price # NoPrice THEN product.original_price
  ELSE product.price

\* The colour both the effect and handlePriceChange give a valid price.
PriceColor(value, recommended) ==
  IF value > recommended THEN "text-red-600"
  ELSE IF value < recommended THEN "text-green-600"
  ELSE "text-gray-700"

\* A mutant: the edit modal stores the payout computed with the default fees.
computedPayoutValueDefaultFees(newPrice, fees) ==
  IF parseFloat(newPrice).nan THEN 0
  ELSE calculatePayout(parseFloat(newPrice).val, DefaultFeePercent,
                       DefaultFeeFixed)

\* computedPayoutValue: the payout the edit modal previews and stores.
computedPayoutValue(newPrice, fees) ==
  IF parseFloat(newPrice).nan THEN 0
  ELSE calculatePayout(parseFloat(newPrice).val, fees.fee_percent,
                       fees.fee_fixed)

\* handleEditProduct(product) for a row of the Dashboard's list.  The modal
\* is mounted when no product was being edited (fresh state), otherwise the
\* mounted instance gets new props.  Effect [isOpen, product]: getFees() and
\* fetchCurrentMarketPrice(product).  Effect [product, recommendedPrice],
\* when one of the two changed: the input is set to the product's price.
EditOpenModal(k) ==
  /\ dashPc = "ready" /\ ~addOpen /\ ~EditShown
  /\ k \in 1 .. Len(products)
  /\ LET product == products[k]
         mounting == editingProduct = NULL
         inst == IF mounting THEN editInst + 1 ELSE editInst
         market == IF mounting THEN NoPrice ELSE editMarket
         rerun == mounting \/ product # editingProduct
     IN /\ editingProduct' = product
        /\ editOpen' = TRUE
        /\ editInst' = inst
        /\ editMarket' = market
        /\ CallGetFees("EditProductModal", inst)
        /\ editFees' = FeesAfterCall(IF mounting THEN InitialFees ELSE editFees,
                                     "EditProductModal", inst)
        /\ editMarketReqs' = editMarketReqs \cup
             {[inst |-> inst, product_id |-> product.product_id,
               size |-> product.size]}
        /\ editNewPrice' = IF rerun THEN toString(product.price) ELSE editNewPrice
        /\ editPriceColor' =
             IF rerun
               THEN PriceColor(product.price, recommendedPrice(market, product))
               ELSE editPriceColor
        /\ editIsPriceValid' = IF mounting THEN TRUE ELSE editIsPriceValid
        /\ editLoading' = IF mounting THEN FALSE ELSE editLoading
        /\ editError' = IF mounting THEN NoMsg ELSE editError
  /\ UNCHANGED <<calcVars, searchVars, routeVars, sessVars, adminVars, dbVars, dashVars, addVars, lastWrite, editSubmit>>

\* onClose: setIsEditModalOpen(false); the modal stays mounted.
EditClose ==
  /\ EditShown
  /\ editOpen' = FALSE
  /\ UNCHANGED <<calcVars, searchVars, routeVars, sessVars, adminVars, dbVars, feeVars, dashVars, addVars, lastWrite,
                 editingProduct, editInst, editNewPrice, editIsPriceValid,
                 editFees, editLoading, editError, editPriceColor,
                 editMarket, editMarketReqs, editSubmit>>

\* fetchCurrentMarketPrice after its await.  With a row and the instance
\* still mounted, setCurrentMarketPrice; when that changes recommendedPrice
\* the effect [product, recommendedPrice] sets the input to the price of the
\* product now edited.  An error or no row is only logged.
EditMarketResponse(req) ==
  /\ req \in editMarketReqs
  /\ editMarketReqs' = editMarketReqs \ {req}
  /\ \E ok \in BOOLEAN :
       LET price == MarketPrice(req.product_id, req.size)
       IN IF ok /\ price # NoPrice /\ EditMounted(req.inst)
            THEN /\ editMarket' = price
                 /\ IF recommendedPrice(price, editingProduct)
                         # recommendedPrice(editMarket, editingProduct)
                      THEN /\ editNewPrice' = toString(editingProduct.price)
                           /\ editPriceColor' =
                                PriceColor(editingProduct.price,
                                           recommendedPrice(price, editingProduct))
                      ELSE UNCHANGED <<editNewPrice, editPriceColor>>
            ELSE UNCHANGED <<editMarket, editNewPrice, editPriceColor>>
  /\ UNCHANGED <<calcVars, searchVars, routeVars, sessVars, adminVars, dbVars, feeVars, dashVars, addVars, lastWrite,
                 editOpen, editingProduct, editInst, editIsPriceValid,
                 editFees, editLoading, editError, editSubmit>>

\* handlePriceChange
EditTypePrice(str) ==
  /\ EditShown
  /\ str # editNewPrice
  /\ editNewPrice' = str
  /\ IF parseFloat(str).nan \/ parseFloat(str).val <= 0
       THEN /\ editIsPriceValid' = FALSE
            /\ editPriceColor' = "text-red-600"
       ELSE /\ editIsPriceValid' = TRUE
            /\ editPriceColor' =
                 PriceColor(parseFloat(str).val,
                            recommendedPrice(editMarket, editingProduct))
  /\ UNCHANGED <<calcVars, searchVars, routeVars, sessVars, adminVars, dbVars, feeVars, dashVars, addVars, lastWrite,
                 editOpen, editingProduct, editInst, editFees, editLoading,
                 editError, editMarket, editMarketReqs, editSubmit>>

\* handleSubmit up to its await: the save button is enabled (isPriceValid,
\* not loading) and the required input is not empty; the update of price and
\* payout is sent with the values of this render.
EditSubmit ==
  /\ EditShown /\ editIsPriceValid /\ ~editLoading /\ editNewPrice # ""
  /\ editSubmit = NULL
  /\ editLoading' = TRUE
  /\ editError' = NoMsg
  /\ editSubmit' =
       [pc |-> "sent", result |-> "none", inst |-> editInst,
        dash |-> dashInst,
        product |-> editingProduct,
        price |-> parseFloat(editNewPrice),
        payout |-> computedPayoutValue(editNewPrice, editFees),
        preview |-> computedPayoutValue(editNewPrice, editFees),
        fees |-> editFees,
        feeCall |-> LastFeeCall("EditProductModal", editInst)]
  /\ UNCHANGED <<calcVars, searchVars, routeVars, sessVars, adminVars, dbVars, feeVars, dashVars, addVars, lastWrite,
                 editOpen, editingProduct, editInst, editNewPrice,
                 editIsPriceValid, editFees, editPriceColor, editMarket,
                 editMarketReqs>>

\* The backend answers the update: it fails, or the row with the product's
\* id (if there still is one) gets the new price and payout.
EditSubmitServe ==
  /\ editSubmit # NULL /\ editSubmit.pc = "sent"
  /\ \E result \in {"error", "updated"} :
       /\ result = "updated" => ~editSubmit.price.nan
       /\ editSubmit' = [editSubmit EXCEPT !.pc = "served", !.result = result]
       /\ user_products' =
            IF result = "updated"
              THEN UpdateListing(user_products, editSubmit.product.id,
                                 editSubmit.price.val, editSubmit.payout)
              ELSE user_products
  /\ UNCHANGED <<calcVars, searchVars, routeVars, sessVars, adminVars, admin_settings, feeVars, dashVars, addVars,
                 lastWrite, editOpen, editingProduct, editInst, editNewPrice,
                 editIsPriceValid, editFees, editLoading, editError,
                 editPriceColor, editMarket, editMarketReqs>>

\* The Dashboard's list with the row of the updated product's id replaced.
handleProductUpdated(list, updatedProduct) ==
  [k \in 1 .. Len(list) |->
     IF list[k].id = updatedProduct.id THEN updatedProduct ELSE list[k]]

\* handleSubmit after its await.  Success: onProductUpdated replaces the row
\* in the Dashboard's list, closes the modal and clears editingProduct (the
\* modal unmounts).  Failure: the error is set and loading ends.
EditSubmitReturn ==
  /\ editSubmit # NULL /\ editSubmit.pc = "served"
  /\ editSubmit' = NULL
  /\ IF ~(DashMounted /\ editSubmit.dash = dashInst)
       THEN UNCHANGED <<products, editOpen, editingProduct, lastWrite,
                        editError, editLoading>>
       ELSE IF editSubmit.result = "updated"
         THEN /\ products' = handleProductUpdated(products,
                   [editSubmit.product EXCEPT !.price = editSubmit.price.val,
                                              !.payout = editSubmit.payout])
              /\ editOpen' = FALSE
              /\ editingProduct' = NULL
              /\ lastWrite' =
                   [kind |-> "edit", id |-> editSubmit.product.id,
                    price |-> editSubmit.price.val,
                    payout |-> editSubmit.payout,
                    fees |-> editSubmit.fees, preview |-> editSubmit.preview,
                    feeCall |-> editSubmit.feeCall]
              /\ UNCHANGED <<editError, editLoading>>
         ELSE /\ editError' = "update failed"
              /\ editLoading' = FALSE
              /\ UNCHANGED <<products, editOpen, editingProduct, lastWrite>>
  /\ UNCHANGED <<calcVars, searchVars, routeVars, sessVars, adminVars, dbVars, feeVars, dashPc, dashFees, dashError,
                 addVars, editInst, editNewPrice, editIsPriceValid, editFees,
                 editPriceColor, editMarket, editMarketReqs>>

\* ------------------------------------------------------------ AdminDashboard
\* The email of a user's row in profiles ('Unknown' without a row).
ProfileEmail(user_id) == IF user_id = SellerId THEN "e1" ELSE "Unknown"

\* Another listing of the seller.
SecondListing ==
  [id |-> "l1", user_id |-> SellerId, product_id |-> "p2", name |-> "n2",
   size |-> "42", price |-> 10, image_url |-> "i2", original_price |-> 20,
   payout |-> calculatePayout(10, DefaultFeePercent, DefaultFeeFixed),
   sku |-> "s2"]

\* fetchUserProducts' result: every row of user_products with the email of
\* its user.
ProductsWithEmails(rows) ==
  LET list == RowsAsList(rows)
  IN [k \in 1 .. Len(list) |->
        [id |-> list[k].id, user_id |-> list[k].user_id,
         product_id |-> list[k].product_id, name |-> list[k].name,
         size |-> list[k].size, price |-> list[k].price,
         image_url |-> list[k].image_url,
         original_price |-> list[k].original_price,
         payout |-> list[k].payout, sku |-> list[k].sku,
         user_email |-> ProfileEmail(list[k].user_id)]]

\* checkAdminStatus: getUser and the admin_users request answer.  Without a
\* user the page navigates away; a request error other than "no row" clears
\* isAdmin; otherwise isAdmin tells whether a row came back, and an admin's
\* listing request is sent (fetchUserProducts sets loading, and the finally
\* of checkAdminStatus clears it at once).
AdminCheckStatus ==
  /\ adminPc = "checking"
  /\ \E outcome \in {"nouser", "error", "norow", "admin", "throw"} :
       /\ adminPc' = IF outcome = "nouser" THEN "left" ELSE "checked"
       /\ isAdmin' = (outcome = "admin")
       /\ adminLoading' = (outcome = "nouser")
       /\ adminFetches' = IF outcome = "admin" THEN adminFetches + 1
                          ELSE adminFetches
       /\ adminError' =
            CASE outcome = "norow" -> "You do not have admin privileges."
              [] outcome = "throw" ->
                   "An error occurred while checking admin status."
              [] OTHER -> adminError
  /\ UNCHANGED <<calcVars, searchVars, routeVars, sessVars, user_products, sellerVars, user_sales,
                 adminProducts, successMessage, processingId, saleCalls>>

\* The Refresh button: fetchUserProducts up to its await.
AdminRefresh ==
  /\ adminPc = "checked" /\ isAdmin /\ ~adminLoading
  /\ adminFetches < MaxFetches
  /\ adminLoading' = TRUE
  /\ adminFetches' = adminFetches + 1
  /\ UNCHANGED <<calcVars, searchVars, routeVars, sessVars, user_products, sellerVars, user_sales, adminPc,
                 isAdmin, adminProducts, adminError, successMessage,
                 processingId, saleCalls>>

\* fetchUserProducts after its awaits: the rows of user_products (read now)
\* with their emails replace the list, or the error is set; loading ends.
AdminFetchReturn ==
  /\ adminFetches > 0
  /\ adminFetches' = adminFetches - 1
  /\ adminLoading' = FALSE
  /\ \E ok \in BOOLEAN :
       IF ok
         THEN /\ adminProducts' = ProductsWithEmails(user_products)
              /\ UNCHANGED adminError
         ELSE /\ adminError' = "An error occurred while fetching user products."
              /\ UNCHANGED adminProducts
  /\ UNCHANGED <<calcVars, searchVars, routeVars, sessVars, user_products, sellerVars, user_sales, adminPc,
                 isAdmin, successMessage, processingId, saleCalls>>

\* The row handleCreateSale inserts into user_sales for a row of the list.
SaleRow(product, id) ==
  [id |-> id, user_id |-> product.user_id, product_id |-> product.product_id,
   name |-> product.name, size |-> product.size, price |-> product.price,
   image_url |-> product.image_url, payout |-> product.payout,
   status |-> "completed", original_product_id |-> product.id]

\* handleCreateSale(product) up to its first await, for row k of the list
\* shown: processingId is set, both messages are cleared and the insert is
\* sent.  The call keeps the list of the render it was created in.
CreateSale(k) ==
  /\ adminPc = "checked" /\ isAdmin /\ ~adminLoading
  /\ k \in 1 .. Len(adminProducts)
  /\ processingId # adminProducts[k].id
  /\ Len(saleCalls) < MaxSaleCalls
  /\ processingId' = adminProducts[k].id
  /\ adminError' = NoMsg
  /\ successMessage' = NoMsg
  /\ saleCalls' = Append(saleCalls,
       [product |-> adminProducts[k], products |-> adminProducts,
        pc |-> "insert", saleOk |-> FALSE, deleteSent |-> FALSE,
        deleteOk |-> FALSE])
  /\ UNCHANGED <<calcVars, searchVars, routeVars, sessVars, user_products, sellerVars, user_sales, adminPc,
                 isAdmin, adminLoading, adminProducts, adminFetches>>

\* The backend answers the insert of call c: the sale row is stored, or the
\* insert fails.
SaleInsertServe(c) ==
  /\ saleCalls[c].pc = "insert"
  /\ \E ok \in BOOLEAN :
       /\ saleCalls' = [saleCalls EXCEPT ![c].pc = "insertServed",
                                         ![c].saleOk = ok]
       /\ user_sales' =
            IF ok THEN user_sales \cup
                         {SaleRow(saleCalls[c].product, Cardinality(user_sales) + 1)}
                  ELSE user_sales
  /\ UNCHANGED <<calcVars, searchVars, routeVars, sessVars, user_products, sellerVars, adminPc, isAdmin,
                 adminLoading, adminProducts, adminError, successMessage,
                 processingId, adminFetches>>

\* A mutant: the delete is sent although the insert failed.
AfterInsertIgnoringError(saleOk) == "delete"

\* handleCreateSale after the insert: if (saleError) throw saleError;
\* otherwise the delete is sent.
AfterInsert(saleOk) == IF saleOk THEN "delete" ELSE "done"

\* The answer to the insert reaches call c: on an error the catch sets the
\* error message and finally clears processingId; otherwise the delete of
\* the listing is sent.
SaleInsertReturn(c) ==
  /\ saleCalls[c].pc = "insertServed"
  /\ saleCalls' = [saleCalls EXCEPT
       ![c].pc = AfterInsert(saleCalls[c].saleOk),
       ![c].deleteSent = (AfterInsert(saleCalls[c].saleOk) = "delete")]
  /\ IF AfterInsert(saleCalls[c].saleOk) = "done"
       THEN /\ adminError' = "Error creating sale: insert failed"
            /\ processingId' = NoMsg
       ELSE UNCHANGED <<adminError, processingId>>
  /\ UNCHANGED <<calcVars, searchVars, routeVars, sessVars, user_products, sellerVars, user_sales, adminPc,
                 isAdmin, adminLoading, adminProducts, successMessage,
                 adminFetches>>

\* .delete().eq('id', id) on user_products.
DeleteListing(rows, id) == {r \in rows : r.id # id}

\* The backend answers the delete of call c: the listing's row (if there is
\* one) is removed, or the delete fails.
SaleDeleteServe(c) ==
  /\ saleCalls[c].pc = "delete"
  /\ \E ok \in BOOLEAN :
       /\ saleCalls' = [saleCalls EXCEPT ![c].pc = "deleteServed",
                                         ![c].deleteOk = ok]
       /\ user_products' =
            IF ok THEN DeleteListing(user_products, saleCalls[c].product.id)
                  ELSE user_products
  /\ UNCHANGED <<calcVars, searchVars, routeVars, sessVars, sellerVars, user_sales, adminPc, isAdmin,
                 adminLoading, adminProducts, adminError, successMessage,
                 processingId, adminFetches>>

\* A mutant: the listing leaves the list and success is reported although
\* the delete failed.
AfterDeleteIgnoringError(call, list, error, success) ==
  [products |-> SelectSeq(call.products, LAMBDA q : q.id # call.product.id),
   error |-> error,
   success |-> "Sale created successfully"]

\* handleCreateSale after the delete: if (deleteError) throw deleteError;
\* otherwise setProducts(products.filter(...)) on the list of the call's
\* render and the success message.  The list and messages that result.
AfterDelete(call, list, error, success) ==
  IF call.deleteOk
    THEN [products |-> SelectSeq(call.products,
                                 LAMBDA q : q.id # call.product.id),
          error |-> error,
          success |-> "Sale created successfully"]
    ELSE [products |-> list,
          error |-> "Error creating sale: delete failed",
          success |-> success]

\* The answer to the delete reaches call c.  finally: processingId is
\* cleared.
SaleDeleteReturn(c) ==
  /\ saleCalls[c].pc = "deleteServed"
  /\ saleCalls' = [saleCalls EXCEPT ![c].pc = "done"]
  /\ LET after == AfterDelete(saleCalls[c], adminProducts, adminError,
                              successMessage)
     IN /\ adminProducts' = after.products
        /\ adminError' = after.error
        /\ successMessage' = after.success
  /\ processingId' = NoMsg
  /\ UNCHANGED <<calcVars, searchVars, routeVars, sessVars, user_products, sellerVars, user_sales, adminPc,
                 isAdmin, adminLoading, adminFetches>>

\* In the seller's session an edit is saved: the update of
\* EditProductModal.handleSubmit reaches user_products (the seller's modal
\* holding the default fees).
SellerEditsListing ==
  /\ \E r \in user_products, price \in {10} :
       /\ price # r.price
       /\ user_products' =
            UpdateListing(user_products, r.id, price,
                          calculatePayout(price, DefaultFeePercent,
                                          DefaultFeeFixed))
  /\ UNCHANGED <<calcVars, searchVars, routeVars, sessVars, sellerVars, adminVars>>

\* In the seller's session a listing is deleted: the delete of
\* Dashboard.handleDeleteProduct reaches user_products.
SellerDeletesListing ==
  /\ \E r \in user_products :
       user_products' = DeleteListing(user_products, r.id)
  /\ UNCHANGED <<calcVars, searchVars, routeVars, sessVars, sellerVars, adminVars>>

\* ------------------------------------------- Dashboard: handleDeleteProduct
\* handleDeleteProduct(id) up to its await, confirmed by the user: the
\* delete of the row is sent.
DashDelete(k) ==
  /\ dashPc = "ready" /\ ~addOpen /\ ~EditShown
  /\ delCall = NULL
  /\ k \in 1 .. Len(products)
  /\ delCall' = [id |-> products[k].id, inst |-> dashInst, pc |-> "sent"]
  /\ UNCHANGED <<calcVars, searchVars, routeVars, user_products, sellerVars, adminVars, session,
                 appVars, dashInst, dashUser, marketPrices, fpCalls,
                 screenVars>>

\* The backend answers the delete: the row (if there is one) is removed, or
\* the delete fails.
DashDeleteServe ==
  /\ delCall # NULL /\ delCall.pc = "sent"
  /\ \E ok \in BOOLEAN :
       /\ delCall' = [delCall EXCEPT !.pc = IF ok THEN "deleted" ELSE "error"]
       /\ user_products' = IF ok THEN DeleteListing(user_products, delCall.id)
                             ELSE user_products
  /\ UNCHANGED <<calcVars, searchVars, routeVars, sellerVars, adminVars, session, appVars, dashInst,
                 dashUser, marketPrices, fpCalls, screenVars>>

\* handleDeleteProduct after its await: the row leaves the list and the
\* error is cleared, or the error is set.
DashDeleteReturn ==
  /\ delCall # NULL /\ delCall.pc \in {"deleted", "error"}
  /\ delCall' = NULL
  /\ IF ~(DashMounted /\ delCall.inst = dashInst)
       THEN UNCHANGED <<products, dashError>>
       ELSE IF delCall.pc = "deleted"
         THEN /\ products' = SelectSeq(products, LAMBDA p : p.id # delCall.id)
              /\ dashError' = NoMsg
         ELSE /\ dashError' = "Doslo k chybe pri odstranovani produktu"
              /\ UNCHANGED products
  /\ UNCHANGED <<calcVars, searchVars, routeVars, adminVars, dbVars, feeVars, dashPc, dashFees,
                 addVars, editVars, lastWrite, session, appVars, dashInst,
                 dashUser, marketPrices, fpCalls, screenVars>>

\* ------------------------------------------------- App: session and routes
\* The Dashboard and its modals are unmounted: their state is gone, the
\* answers of their requests in flight are dropped, and the getFees() calls
\* in flight no longer have a component to store their result in.  The
\* listing writes in flight go on.
DashboardUnmounted ==
  /\ dashPc' = "left"
  /\ dashFees' = InitialFees
  /\ products' = <<>>
  /\ dashError' = NoMsg
  /\ dashUser' = NoMsg
  /\ marketPrices' = EmptyPrices
  /\ addOpen' = FALSE
  /\ addSelected' = NULL
  /\ addSizes' = <<>>
  /\ addSize' = ""
  /\ addNewPrice' = ""
  /\ addFees' = InitialFees
  /\ addLoading' = FALSE
  /\ addError' = NoMsg
  /\ addSizeReqs' = {}
  /\ editOpen' = FALSE
  /\ editingProduct' = NULL
  /\ editNewPrice' = ""
  /\ editIsPriceValid' = TRUE
  /\ editFees' = InitialFees
  /\ editLoading' = FALSE
  /\ editError' = NoMsg
  /\ editPriceColor' = "text-gray-700"
  /\ editMarket' = NoPrice
  /\ editMarketReqs' = {}
  /\ feeCalls' = [i \in 1 .. Len(feeCalls) |->
                    IF feeCalls[i].pc = "returned" THEN feeCalls[i]
                    ELSE [feeCalls[i] EXCEPT !.caller = "unmounted"]]
  /\ UNCHANGED <<cachedSettings, addSubmit, editSubmit, editInst, lastWrite,
                 fpCalls>>

\* The Dashboard variables when another screen changes.
DashboardUnchanged ==
  UNCHANGED <<feeVars, dashVars, addVars, editVars, lastWrite, loadVars>>

\* Profile is unmounted.
ProfileUnmounted ==
  /\ profPc' = "off"
  /\ profUser' = NoMsg
  /\ profile' = InitialProfile

\* Sales is unmounted.
SalesUnmounted ==
  /\ salesPc' = "off"
  /\ salesUser' = NoMsg
  /\ sales' = <<>>

\* Route /dashboard with a user: a new Dashboard is mounted, the other seller
\* screens are not.
ToDashboard ==
  /\ dashInst < MaxMounts
  /\ dashPc' = "getUser"
  /\ dashInst' = dashInst + 1
  /\ ProfileUnmounted
  /\ SalesUnmounted
  /\ UNCHANGED <<feeVars, dashFees, products, dashError, addVars, editVars,
                 lastWrite, dashUser, marketPrices, fpCalls, delCall>>

\* The element <Routes> renders at a location and where it leaves the
\* router: / shows AuthForm without a user and navigates to /dashboard with
\* one; the seller routes need a user; /admin needs a user who is an admin,
\* navigates to /dashboard for another user and to / without one.
RouteTarget(loc, user, admin) ==
  CASE loc = "/" -> IF user = NoMsg THEN "/" ELSE "/dashboard"
    [] loc = "/admin" -> IF user # NoMsg /\ admin THEN "/admin"
                         ELSE IF user # NoMsg THEN "/dashboard" ELSE "/"
    [] OTHER -> IF user # NoMsg THEN loc ELSE "/"

\* App renders <AdminDashboard />.
AdminShown ==
  ~appLoading /\ location = "/admin" /\ appUser # NoMsg /\ appIsAdmin

\* The answer of the admin_users request reaches checkAdminStatus call c of
\* App.
AppCheckAnswer(c) ==
  /\ appChecks[c].pc = "sent"
  /\ \E answer \in AdminCheckAnswers(appChecks[c].userId) :
       LET target == IF appLoading THEN location
                     ELSE RouteTarget(location, appUser, IsAdminAfter(answer))
       IN /\ appChecks' = [appChecks EXCEPT ![c].pc = answer]
          /\ appIsAdmin' = IsAdminAfter(answer)
          /\ location' = target
          /\ IF target = "/dashboard" /\ location # "/dashboard"
               THEN ToDashboard /\ UNCHANGED <<admin_settings, profiles>>
               ELSE UNCHANGED <<sellerVars, loadVars, screenVars>>
  /\ UNCHANGED <<calcVars, searchVars, appLoading, user_products, adminVars,
                 session, appUser>>

\* supabase.auth.signOut(): the session ends.  App's listener: setUser(null)
\* and setIsAdmin(false); every route of a signed-in user renders
\* <Navigate to="/">, so the seller screens are unmounted.
SignOut ==
  /\ session # NoMsg
  /\ session' = NoMsg
  /\ appUser' = NoMsg
  /\ appIsAdmin' = FALSE
  /\ DashboardUnmounted
  /\ ProfileUnmounted
  /\ SalesUnmounted
  /\ location' = RouteTarget(location, NoMsg, FALSE)
  /\ UNCHANGED <<calcVars, searchVars, appLoading, adminVars, dbVars, appChecks, dashInst, profiles,
                 delCall>>

\* A user signs in with AuthForm.  App's listener: setUser(currentUser) and
\* checkAdminStatus(currentUser.id); route / renders
\* <Navigate to="/dashboard">, and the Dashboard is mounted.
SignIn(userId) ==
  /\ session = NoMsg
  /\ Len(appChecks) < MaxAuthEvents
  /\ session' = userId
  /\ appUser' = userId
  /\ appChecks' = Append(appChecks, [userId |-> userId, pc |-> "sent"])
  /\ ToDashboard
  /\ location' = "/dashboard"
  /\ UNCHANGED <<calcVars, searchVars, appLoading, adminVars, dbVars, appIsAdmin, profiles>>

\* The user opens /dashboard from another seller screen.
GoDashboard ==
  /\ appUser # NoMsg /\ ~DashMounted
  /\ ToDashboard
  /\ location' = "/dashboard"
  /\ UNCHANGED <<calcVars, searchVars, appLoading, adminVars, dbVars, session, appVars, profiles>>

\* The user opens /profile: Profile is mounted and getProfile starts.
GoProfile ==
  /\ appUser # NoMsg /\ profPc = "off"
  /\ profPc' = "getUser"
  /\ DashboardUnmounted
  /\ SalesUnmounted
  /\ location' = "/profile"
  /\ UNCHANGED <<calcVars, searchVars, appLoading, adminVars, dbVars, session, appVars, dashInst,
                 profiles, profUser, profile, delCall>>

\* The user opens the sales screen: Sales is mounted and fetchUserAndSales
\* starts.
GoSales ==
  /\ appUser # NoMsg /\ salesPc = "off"
  /\ salesPc' = "getUser"
  /\ DashboardUnmounted
  /\ ProfileUnmounted
  /\ location' = "/sales"
  /\ UNCHANGED <<calcVars, searchVars, appLoading, adminVars, dbVars, session, appVars, dashInst,
                 profiles, salesUser, sales, delCall>>

\* getUser().then(...) of App's effect: setUser(user), checkAdminStatus is
\* called without being awaited when there is a user, and setLoading(false).
\* The routes are rendered with isAdmin as it is at that moment.
AppGetUserReturn ==
  /\ appLoading
  /\ appLoading' = FALSE
  /\ appUser' = session
  /\ appChecks' = IF session # NoMsg
                    THEN Append(appChecks, [userId |-> session, pc |-> "sent"])
                    ELSE appChecks
  /\ LET target == RouteTarget(location, session, appIsAdmin)
     IN /\ location' = target
        /\ IF target = "/dashboard"
             THEN ToDashboard /\ UNCHANGED <<admin_settings, profiles>>
             ELSE UNCHANGED <<sellerVars, loadVars, screenVars>>
  /\ UNCHANGED <<calcVars, searchVars, user_products, adminVars, session,
                 appIsAdmin>>

\* -------------------------------------------------------------------- Profile
\* What the request  from('profiles').select('*').eq('id', id).single()  can
\* answer: the row, the no-row error (PGRST116) when there is none; at any
\* time another error.
ProfileAnswers(userId) ==
  (IF \E r \in profiles : r.id = userId
     THEN {[kind |-> "row", row |-> r] : r \in {q \in profiles : q.id = userId}}
     ELSE {[kind |-> "norow"]})
  \cup {[kind |-> "error"]}

\* The profile state getProfile sets: the fields of the row, with
\* profileData.email || user.email; without a row only the email, user.email.
LoadedProfile(prev, resp, userId) ==
  IF resp.kind = "row"
    THEN [first_name |-> resp.row.first_name,
          email |-> IF resp.row.email # "" THEN resp.row.email
                    ELSE AuthEmail(userId)]
    ELSE [prev EXCEPT !.email = AuthEmail(userId)]

\* The updates object of handleSubmitProfile.
ProfileUpdates(userId, prof) ==
  [id |-> userId, first_name |-> prof.first_name, email |-> prof.email]

\* .upsert(updates) on profiles (primary key id).
Upsert(rows, row) == {r \in rows : r.id # row.id} \cup {row}

\* getProfile: supabase.auth.getUser() answers.  With a user (setUser) the
\* profile request is sent; without one Profile navigates to /, which leads
\* to /dashboard; a rejected request ends loading.
ProfileGetUser ==
  /\ profPc = "getUser"
  /\ \E outcome \in {"user", "nouser", "throw"} :
       /\ outcome = "user" => session # NoMsg
       /\ IF outcome = "nouser"
            THEN ToDashboard
            ELSE /\ profPc' = IF outcome = "user" THEN "load" ELSE "ready"
                 /\ profUser' = IF outcome = "user" THEN session ELSE profUser
                 /\ DashboardUnchanged
                 /\ UNCHANGED <<profile, salesVars>>
  /\ UNCHANGED <<calcVars, searchVars, routeVars, adminVars, dbVars, session, appVars, profiles>>

\* getProfile after the profiles request: setProfile, and loading ends.
ProfileLoad ==
  /\ profPc = "load"
  /\ \E resp \in ProfileAnswers(profUser) :
       profile' = LoadedProfile(profile, resp, profUser)
  /\ profPc' = "ready"
  /\ DashboardUnchanged
  /\ UNCHANGED <<calcVars, searchVars, routeVars, adminVars, dbVars, session, appVars, profiles,
                 profUser, salesVars>>

\* The names the user may type into the form.
FirstNames == {"", "Jan"}

\* The user edits a field of the form (the email input is read-only).
ProfileEdit(name) ==
  /\ profPc = "ready"
  /\ name # profile.first_name
  /\ profile' = [profile EXCEPT !.first_name = name]
  /\ DashboardUnchanged
  /\ UNCHANGED <<calcVars, searchVars, routeVars, adminVars, dbVars, session, appVars, profiles,
                 profPc, profUser, salesVars>>

\* handleSubmitProfile: getUser() gives no user (error message), or the user
\* of the session, and the upsert of the updates fails or is done.
ProfileSubmit ==
  /\ profPc = "ready"
  /\ \E outcome \in {"nouser", "error", "saved"} :
       /\ outcome # "nouser" => session # NoMsg
       /\ profiles' = IF outcome = "saved"
                        THEN Upsert(profiles, ProfileUpdates(session, profile))
                        ELSE profiles
  /\ DashboardUnchanged
  /\ UNCHANGED <<calcVars, searchVars, routeVars, adminVars, dbVars, session, appVars, profVars,
                 salesVars>>

\* handleDeleteProfile, confirmed: getUser() gives no user, or the delete of
\* the user's row fails, or it is done and the local profile is reset, with
\* the email of the auth identity.
ProfileDelete ==
  /\ profPc = "ready"
  /\ \E outcome \in {"nouser", "error", "deleted"} :
       /\ outcome # "nouser" => session # NoMsg
       /\ IF outcome = "deleted"
            THEN /\ profiles' = {r \in profiles : r.id # session}
                 /\ profile' = [first_name |-> "", email |-> AuthEmail(session)]
            ELSE UNCHANGED <<profiles, profile>>
  /\ DashboardUnchanged
  /\ UNCHANGED <<calcVars, searchVars, routeVars, adminVars, dbVars, session, appVars, profPc,
                 profUser, salesVars>>

\* ---------------------------------------------------------------------- Sales
\* The largest id of a user_sales row of the model.
MaxSaleId == 3

\* .order('created_at', { ascending: false }): the rows as a list, the
\* latest (largest id) first, from id k down.
RECURSIVE SalesFrom(_, _)
SalesFrom(rows, k) ==
  IF k < 1 THEN <<>>
  ELSE (IF \E r \in rows : r.id = k
          THEN <<CHOOSE r \in rows : r.id = k>> ELSE <<>>)
       \o SalesFrom(rows, k - 1)

\* fetchUserAndSales: supabase.auth.getUser() answers.  With a user (setUser)
\* fetchSales(user.id) sends its request; without one Sales navigates to /,
\* which leads to /dashboard; a rejected request ends loading.
SalesGetUser ==
  /\ salesPc = "getUser"
  /\ \E outcome \in {"user", "nouser", "throw"} :
       /\ outcome = "user" => session # NoMsg
       /\ IF outcome = "nouser"
            THEN ToDashboard
            ELSE /\ salesPc' = IF outcome = "user" THEN "rows" ELSE "ready"
                 /\ salesUser' = IF outcome = "user" THEN session ELSE salesUser
                 /\ DashboardUnchanged
                 /\ UNCHANGED <<sales, profVars>>
  /\ UNCHANGED <<calcVars, searchVars, routeVars, adminVars, dbVars, session, appVars, profiles>>

\* fetchSales(userId) after its await: the user's rows replace the list, or
\* the error is set; loading ends.
SalesFetch ==
  /\ salesPc = "rows"
  /\ \E ok \in BOOLEAN :
       sales' = IF ok THEN SalesFrom(SelectOwn(user_sales, salesUser), MaxSaleId)
                ELSE sales
  /\ salesPc' = "ready"
  /\ DashboardUnchanged
  /\ UNCHANGED <<calcVars, searchVars, routeVars, adminVars, dbVars, session, appVars, profiles,
                 profVars, salesUser>>

\* ------------------------------------------------------------ specifications
\* The session of the seller, App past its loading, and the Dashboard it
\* mounted.
SessIdle ==
  /\ session = SellerId
  /\ appUser = SellerId
  /\ appIsAdmin = FALSE
  /\ appChecks = <<>>
  /\ appLoading = FALSE
  /\ location = "/dashboard"
  /\ dashInst = 1
  /\ dashUser = NoMsg
  /\ marketPrices = EmptyPrices
  /\ fpCalls = <<>>
  /\ delCall = NULL
  /\ profPc = "off"
  /\ profUser = NoMsg
  /\ profile = InitialProfile
  /\ salesPc = "off"
  /\ salesUser = NoMsg
  /\ sales = <<>>

\* The Dashboard's fees, list and modals in their initial state: nothing
\* cached, no request made.
ModalsIdle ==
  /\ cachedSettings = NULL
  /\ feeCalls = <<>>
  /\ dashFees = InitialFees
  /\ products = <<>>
  /\ dashError = NoMsg
  /\ addOpen = FALSE
  /\ addSelected = NULL
  /\ addSizes = <<>>
  /\ addSize = ""
  /\ addNewPrice = ""
  /\ addFees = InitialFees
  /\ addLoading = FALSE
  /\ addError = NoMsg
  /\ addSizeReqs = {}
  /\ addSubmit = NULL
  /\ editOpen = FALSE
  /\ editingProduct = NULL
  /\ editInst = 0
  /\ editNewPrice = ""
  /\ editIsPriceValid = TRUE
  /\ editFees = InitialFees
  /\ editLoading = FALSE
  /\ editError = NoMsg
  /\ editPriceColor = "text-gray-700"
  /\ editMarket = NoPrice
  /\ editMarketReqs = {}
  /\ editSubmit = NULL
  /\ lastWrite = NULL
  /\ searchTerm = ""
  /\ existingProducts = <<>>
  /\ searchTimer = NULL
  /\ searchCalls = <<>>

\* The seller is signed in and the Dashboard has just been mounted.
SellerIdle ==
  /\ SessIdle
  /\ dashPc = "getUser"
  /\ ModalsIdle

SellerInit ==
  /\ admin_settings \in SUBSET SettingsRows
  /\ user_products = {InitialListing}
  /\ profiles = {}
  /\ SellerIdle

\* The admin's process before AdminDashboard is mounted, and no sales.
AdminScreenIdle ==
  /\ adminPc = "checking"
  /\ isAdmin = FALSE
  /\ adminLoading = TRUE
  /\ adminProducts = <<>>
  /\ adminError = NoMsg
  /\ successMessage = NoMsg
  /\ processingId = NoMsg
  /\ adminFetches = 0
  /\ saleCalls = <<>>

AdminIdle == user_sales = {} /\ AdminScreenIdle

\* The calculator's variables while the seller's process runs.
CalcIdle ==
  /\ cPrice = 0 /\ cFeePercent = 0 /\ cFeeFixed = 0 /\ cResult = 0
  /\ cDone = FALSE

\* The fee provider and the components that call it: the seller opens and
\* closes the modals (every other action of the process leaves
\* cachedSettings and the getFees() calls unchanged).
FeesInit == SellerInit /\ CalcIdle /\ AdminIdle

FeesNext ==
  \/ \E i \in 1 .. Len(feeCalls) : ServeFees(i)
  \/ \E i \in 1 .. Len(feeCalls) : ReturnFees(i)
  \/ SettingsChange
  \/ DashGetUser
  \/ DashFetchProducts
  \/ AddOpenModal
  \/ AddClose
  \/ \E k \in 1 .. Len(products) : EditOpenModal(k)
  \/ EditClose

SpecFees == FeesInit /\ [][FeesNext]_vars

\* The add and edit flows of a seller, with the fee provider: the seller
\* lists product p1 in size 42 and edits listings, while admin_settings
\* (empty, or the one row 0.5 / 8) stays as it is.
ListingInit ==
  /\ SellerInit
  /\ CalcIdle
  /\ AdminIdle
  /\ admin_settings \in {{}, {[fee_percent |-> 50, fee_fixed |-> 8]}}

ListingNext ==
  \/ \E i \in 1 .. Len(feeCalls) : AnswerFees(i)
  \/ DashGetUser
  \/ DashFetchProducts
  \/ AddOpenModal
  \/ AddClose
  \/ \E p \in {q \in Products : q.id = "p1"} : AddSelectProduct(p)
  \/ \E pid \in {p.id : p \in Products} : AddSizesResponse(pid)
  \/ \E size \in {"42"} : AddSelectSize(size)
  \/ \E str \in {"0", "10"} : AddTypePrice(str)
  \/ AddSubmit
  \/ AddSubmitServe
  \/ AddSubmitReturn
  \/ \E k \in 1 .. Len(products) : EditOpenModal(k)
  \/ EditClose
  \/ \E req \in editMarketReqs : EditMarketResponse(req)
  \/ \E str \in {"", "10"} : EditTypePrice(str)
  \/ EditSubmit
  \/ EditSubmitServe
  \/ EditSubmitReturn

SpecListing == ListingInit /\ [][ListingNext]_vars

\* The add flow of a seller over the whole catalog: the seller selects and
\* changes products, chooses sizes and submits, while the size requests are
\* answered late or fail.
AddInit ==
  /\ SellerInit
  /\ CalcIdle
  /\ AdminIdle
  /\ admin_settings = {}

AddNext ==
  \/ \E i \in 1 .. Len(feeCalls) : AnswerFees(i)
  \/ DashGetUser
  \/ DashFetchProducts
  \/ AddOpenModal
  \/ AddClose
  \/ \E p \in Products : AddSelectProduct(p)
  \/ \E pid \in {p.id : p \in Products} : AddSizesResponse(pid)
  \/ AddChangeProduct
  \/ \E size \in {r.size : r \in product_sizes} : AddSelectSize(size)
  \/ \E str \in {"10", "20"} : AddTypePrice(str)
  \/ AddSubmit
  \/ AddSubmitServe
  \/ AddSubmitReturn

SpecAdd == AddInit /\ [][AddNext]_vars

\* A listing as the add flow stores it: of the seller, with the fields of the
\* catalog rows chosen.
Listing(id, user_id, product_id, size, price, original_price) ==
  [id |-> id, user_id |-> user_id, product_id |-> product_id,
   name |-> "n", size |-> size, price |-> price, image_url |-> "i",
   original_price |-> original_price,
   payout |-> calculatePayout(price, DefaultFeePercent, DefaultFeeFixed),
   sku |-> "s"]

\* Contents of user_products the Dashboard is loaded over: listings above,
\* below and at the lowest in-stock price; a listing of another user; a
\* listing of a size that is sold out; listings of products "p" (size
\* "1-42") and "p-1" (size "42"); a listing whose lowest in-stock price is 0.
ListedTables ==
  { {InitialListing, SecondListing},
    {InitialListing, Listing("l1", SellerId, "p2", "42", 20, 20)},
    {InitialListing, Listing("l1", AdminId, "p2", "42", 20, 20)},
    {Listing("l0", SellerId, "p1", "43", 10, 10),
     Listing("l1", SellerId, "p1", "42", 10, 10)},
    {Listing("l0", SellerId, "p", "1-42", 30, 30),
     Listing("l1", SellerId, "p-1", "42", 50, 50)},
    {Listing("l0", SellerId, "p0", "42", 10, 0)} }

\* The Dashboard loading the seller's listings and their market prices, at
\* mount and at every auth event of the session.
DashInit ==
  /\ CalcIdle
  /\ AdminIdle
  /\ admin_settings = {}
  /\ user_products \in ListedTables
  /\ profiles = {}
  /\ SellerIdle

DashNext ==
  \/ \E i \in 1 .. Len(feeCalls) : AnswerFees(i)
  \/ DashGetUser
  \/ DashFetchProducts
  \/ AuthRefresh
  \/ \E c \in 1 .. Len(appChecks) : AppCheckAnswer(c)
  \/ \E c \in 1 .. Len(fpCalls) : FetchProductsRows(c)
  \/ \E c \in 1 .. Len(fpCalls) : FetchProductsPrice(c)

SpecDash == DashInit /\ [][DashNext]_vars

\* A listing of the administrator's own.
AdminListing == Listing("l1", AdminId, "p2", "42", 20, 20)

\* The seller signs out and another user signs in, in one browser: the
\* seller screens and the add flow, while requests are in flight.  Both users have a sale; the seller
\* has no listing yet.
SessionInit ==
  /\ CalcIdle
  /\ AdminScreenIdle
  /\ admin_settings = {}
  /\ profiles = {}
  /\ user_products = {AdminListing}
  /\ user_sales = {SaleRow(InitialListing, 1), SaleRow(AdminListing, 2)}
  /\ SellerIdle

SessionNext ==
  \/ \E i \in 1 .. Len(feeCalls) : AnswerFees(i)
  \/ DashGetUser
  \/ DashFetchProducts
  \/ AuthRefresh
  \/ \E c \in 1 .. Len(fpCalls) : FetchProductsRows(c)
  \/ SignOut
  \/ SignIn(AdminId)
  \/ GoSales
  \/ SalesGetUser
  \/ SalesFetch
  \/ AddOpenModal
  \/ \E p \in {q \in Products : q.id = "p1"} : AddSelectProduct(p)
  \/ \E pid \in {p.id : p \in Products} : AddSizesResponse(pid)
  \/ AddSelectSize("42")
  \/ AddTypePrice("10")
  \/ AddSubmit
  \/ AddSubmitServe
  \/ AddSubmitReturn

SpecSession == SessionInit /\ [][SessionNext]_vars

\* App's admin flag while two users, one of them an administrator, sign in
\* and out and the answers of the admin checks arrive in any order.
AppInit ==
  /\ CalcIdle
  /\ AdminIdle
  /\ admin_settings = {}
  /\ profiles = {}
  /\ user_products = {InitialListing, AdminListing}
  /\ SellerIdle

AppNext ==
  \/ \E i \in 1 .. Len(feeCalls) : AnswerFees(i)
  \/ DashGetUser
  \/ DashFetchProducts
  \/ AuthRefresh
  \/ \E c \in 1 .. Len(appChecks) : AppCheckAnswer(c)
  \/ SignOut
  \/ \E userId \in {SellerId, AdminId} : SignIn(userId)

SpecApp == AppInit /\ [][AppNext]_vars

\* The profile rows the seller may have when Profile is opened: none, one
\* with the email of the auth identity, one saved under an earlier email.
ProfileTables ==
  { {},
    {[id |-> SellerId, first_name |-> "Jan", email |-> AuthEmail(SellerId)]},
    {[id |-> SellerId, first_name |-> "Jan", email |-> "u1@old"]} }

\* The seller opens the profile screen, edits, saves and deletes the
\* profile, and signs out and in.
ProfileInit ==
  /\ CalcIdle
  /\ AdminIdle
  /\ admin_settings = {}
  /\ user_products = {InitialListing}
  /\ profiles \in ProfileTables
  /\ SellerIdle

ProfileNext ==
  \/ \E i \in 1 .. Len(feeCalls) : AnswerFees(i)
  \/ DashGetUser
  \/ DashFetchProducts
  \/ SignOut
  \/ SignIn(SellerId)
  \/ GoDashboard
  \/ GoProfile
  \/ ProfileGetUser
  \/ ProfileLoad
  \/ \E name \in FirstNames : ProfileEdit(name)
  \/ ProfileSubmit
  \/ ProfileDelete

SpecProfile == ProfileInit /\ [][ProfileNext]_vars

\* One seller session alone: the Dashboard's list and the seller's rows of
\* user_products while the seller edits and deletes listings and the auth
\* listener fetches them again.
SyncInit ==
  /\ CalcIdle
  /\ AdminIdle
  /\ admin_settings = {}
  /\ user_products = {InitialListing}
  /\ profiles = {}
  /\ SellerIdle

SyncNext ==
  \/ \E i \in 1 .. Len(feeCalls) : AnswerFees(i)
  \/ DashGetUser
  \/ DashFetchProducts
  \/ AuthRefresh
  \/ \E c \in 1 .. Len(fpCalls) : FetchProductsServe(c)
  \/ \E c \in 1 .. Len(fpCalls) : FetchProductsReturn(c)
  \/ \E c \in 1 .. Len(fpCalls) : FetchProductsPrice(c)
  \/ \E k \in 1 .. Len(products) : DashDelete(k)
  \/ DashDeleteServe
  \/ DashDeleteReturn
  \/ \E k \in 1 .. Len(products) : EditOpenModal(k)
  \/ \E req \in editMarketReqs : EditMarketResponse(req)
  \/ EditTypePrice("10")
  \/ EditSubmit
  \/ EditSubmitServe
  \/ EditSubmitReturn

SpecSync == SyncInit /\ [][SyncNext]_vars

\* The seller owns two listings and edits them in turn: the edit modal is
\* opened, typed into, cancelled, opened for the other listing and saved,
\* while its fee and market-price requests are answered.
ModalInit ==
  /\ CalcIdle
  /\ AdminIdle
  /\ admin_settings = {}
  /\ user_products = {InitialListing, SecondListing}
  /\ profiles = {}
  /\ SellerIdle

ModalNext ==
  \/ \E i \in 1 .. Len(feeCalls) : AnswerFees(i)
  \/ DashGetUser
  \/ DashFetchProducts
  \/ \E k \in 1 .. Len(products) : EditOpenModal(k)
  \/ EditClose
  \/ \E req \in editMarketReqs : EditMarketResponse(req)
  \/ \E str \in {"", "20"} : EditTypePrice(str)
  \/ EditSubmit
  \/ EditSubmitServe
  \/ EditSubmitReturn

SpecEdit == ModalInit /\ [][ModalNext]_vars

\* The seller searches the catalog in the add modal: the term is typed and
\* changed, the debounce timer fires and the search requests are answered in
\* any order.
SearchInit ==
  /\ CalcIdle
  /\ AdminIdle
  /\ admin_settings = {}
  /\ user_products = {InitialListing}
  /\ profiles = {}
  /\ SellerIdle

SearchNext ==
  \/ \E i \in 1 .. Len(feeCalls) : AnswerFees(i)
  \/ DashGetUser
  \/ DashFetchProducts
  \/ AddOpenModal
  \/ AddClose
  \/ \E term \in {"n", "n1", "n2"} : SearchType(term)
  \/ SearchTimerFires
  \/ \E c \in 1 .. Len(searchCalls) : SearchReturn(c)

SpecSearch == SearchInit /\ [][SearchNext]_vars

\* The app is opened at a location, with or without a stored session: App
\* is loading, no screen is mounted, getUser is in flight and the auth
\* listener is subscribed.
BootInit ==
  /\ CalcIdle
  /\ AdminIdle
  /\ admin_settings = {}
  /\ user_products = {AdminListing}
  /\ profiles = {}
  /\ ModalsIdle
  /\ dashPc = "left"
  /\ session \in {NoMsg, SellerId, AdminId}
  /\ appUser = NoMsg
  /\ appIsAdmin = FALSE
  /\ appChecks = <<>>
  /\ appLoading = TRUE
  /\ location \in {"/", "/dashboard", "/admin"}
  /\ dashInst = 0
  /\ dashUser = NoMsg
  /\ marketPrices = EmptyPrices
  /\ fpCalls = <<>>
  /\ delCall = NULL
  /\ profPc = "off"
  /\ profUser = NoMsg
  /\ profile = InitialProfile
  /\ salesPc = "off"
  /\ salesUser = NoMsg
  /\ sales = <<>>

BootNext ==
  \/ AppGetUserReturn
  \/ AuthRefresh
  \/ \E c \in 1 .. Len(appChecks) : AppCheckAnswer(c)
  \/ DashGetUser
  \/ DashFetchProducts
  \/ \E i \in 1 .. Len(feeCalls) : AnswerFees(i)

\* Every request is answered: the getUser of App's effect and each
\* checkAdminStatus request.
SpecBoot ==
  /\ BootInit
  /\ [][BootNext]_vars
  /\ WF_vars(AppGetUserReturn)
  /\ \A c \in 1 .. MaxAuthEvents + 1 :
       WF_vars(c \in 1 .. Len(appChecks) /\ AppCheckAnswer(c))

\* The admin's process converting listings to sales, while the seller's
\* session edits and deletes listings.
AdminInit ==
  /\ CalcIdle
  /\ AdminIdle
  /\ admin_settings = {}
  /\ user_products = {InitialListing, SecondListing}
  /\ profiles = {}
  /\ SellerIdle

AdminNext ==
  \/ AdminCheckStatus
  \/ AdminRefresh
  \/ AdminFetchReturn
  \/ \E k \in 1 .. Len(adminProducts) : CreateSale(k)
  \/ \E c \in 1 .. Len(saleCalls) : SaleInsertServe(c)
  \/ \E c \in 1 .. Len(saleCalls) : SaleInsertReturn(c)
  \/ \E c \in 1 .. Len(saleCalls) : SaleDeleteServe(c)
  \/ \E c \in 1 .. Len(saleCalls) : SaleDeleteReturn(c)
  \/ SellerEditsListing
  \/ SellerDeletesListing

SpecAdmin == AdminInit /\ [][AdminNext]_vars

\* The payout calculator applied once to arguments of its valid domain.
CalcInit ==
  /\ cPrice \in CalcPrices
  /\ cFeePercent \in CalcPercents
  /\ cFeeFixed \in CalcFixed
  /\ cResult = 0
  /\ cDone = FALSE

\* One call calculatePayout(cPrice, cFeePercent, cFeeFixed).
Calc ==
  /\ ~cDone
  /\ cResult' = calculatePayout(cPrice, cFeePercent, cFeeFixed)
  /\ cDone' = TRUE
  /\ UNCHANGED <<cPrice, cFeePercent, cFeeFixed, user_products, sellerVars,
                 adminVars, sessVars, searchVars, routeVars>>

CalcNext == Calc

CalcSpecInit ==
  /\ CalcInit
  /\ SellerInit
  /\ AdminIdle
  /\ admin_settings = {}

SpecCalc == CalcSpecInit /\ [][CalcNext]_vars



\* ------------------------------------------------------------------- claims
\* The step in which getFees() call i returns after an answer without a row.
FallbackStep(i) ==
  /\ feeCalls[i].pc = "served"
  /\ feeCalls[i].resp.kind # "row"
  /\ feeCalls'[i].pc = "returned"

\* The step in which getFees() call i returns after an answer with a row.
RowStep(i) ==
  /\ feeCalls[i].pc = "served"
  /\ feeCalls[i].resp.kind = "row"
  /\ feeCalls'[i].pc = "returned"

\* C1: for price >= 0, 0 <= feePercent <= 1 and feeFixed >= 0,
\* calculatePayout(price, feePercent, feeFixed) is the price less the
\* percentage fee and the fixed fee, price*(1-feePercent) - feeFixed; in
\* particular calculatePayout(100, 0.2, 5) = 75 and
\* calculatePayout(20, 0.2, 5) = 11.
C1_PayoutFormula ==
  cDone =>
    /\ cResult = cPrice * PctDen - (cPrice * cFeePercent + cFeeFixed * PctDen)
    /\ (cPrice = 100 /\ cFeePercent = 20 /\ cFeeFixed = 5) => cResult = 75 * PctDen
    /\ (cPrice = 20 /\ cFeePercent = 20 /\ cFeeFixed = 5) => cResult = 11 * PctDen

C1_Witness ==
  cDone /\ cPrice = 100 /\ cFeePercent = 20 /\ cFeeFixed = 5
        /\ cResult = 75 * PctDen

\* The payout of price under fees, not floored, written without the
\* calculator.
UnflooredPayout(price, fees) ==
  price * PctDen - price * fees.fee_percent - fees.fee_fixed * PctDen

\* C2: the payout has no floor at zero.  Whenever price*(1-feePercent) <
\* feeFixed the payout is negative (calculatePayout(10, 0.5, 8) = -3), and
\* the add and edit flows preview and persist that negative payout as it is:
\* the payout a submit sends, and the payout of a completed write, is the
\* unfloored payout of the price under the modal's fees, and equals the
\* preview.
C2_NoFloor ==
  /\ addSubmit # NULL =>
       /\ addSubmit.row.payout = UnflooredPayout(addSubmit.row.price, addSubmit.fees)
       /\ addSubmit.row.payout = addSubmit.preview
  /\ editSubmit # NULL /\ ~editSubmit.price.nan =>
       /\ editSubmit.payout = UnflooredPayout(editSubmit.price.val, editSubmit.fees)
       /\ editSubmit.payout = editSubmit.preview
  /\ lastWrite # NULL =>
       /\ lastWrite.payout = UnflooredPayout(lastWrite.price, lastWrite.fees)
       /\ lastWrite.payout = lastWrite.preview
       /\ (lastWrite.price * (PctDen - lastWrite.fees.fee_percent)
             < lastWrite.fees.fee_fixed * PctDen) => lastWrite.payout < 0
       /\ (lastWrite.price = 10 /\ lastWrite.fees.fee_percent = 50
             /\ lastWrite.fees.fee_fixed = 8) => lastWrite.payout = (0 - 3) * PctDen

\* An edit saved a negative payout, and the listing the add flow inserted
\* is stored with a negative payout.
C2_Witness ==
  /\ lastWrite # NULL
  /\ lastWrite.kind = "edit"
  /\ lastWrite.payout = (0 - 3) * PctDen
  /\ \E r \in user_products : r.id = lastWrite.id /\ r.payout = lastWrite.payout
  /\ \E r \in user_products : r.id = "l1" /\ r.payout < 0

\* C3: getFees() returns fee_percent = 0.2 and fee_fixed = 5 whenever the
\* admin_settings request does not yield exactly one row: the answer to a
\* table that does not hold exactly one row is never a row, and a call that
\* continues with the no-row error, another error, a rejected request or no
\* data returns the default.
C3_DefaultOnFailure ==
  [][\A i \in 1 .. Len(feeCalls) :
       /\ (feeCalls[i].pc = "requested" /\ feeCalls'[i].pc = "served"
             /\ Cardinality(admin_settings) # 1)
            => feeCalls'[i].resp.kind # "row"
       /\ FallbackStep(i) =>
            /\ feeCalls'[i].ret.fee_percent = DefaultFeePercent
            /\ feeCalls'[i].ret.fee_fixed = DefaultFeeFixed]_vars

\* A call that fetched has returned the default while the table is empty.
C3_Witness ==
  \E i \in 1 .. Len(feeCalls) :
    /\ feeCalls[i].pc = "returned" /\ feeCalls[i].fetched
    /\ feeCalls[i].fallback
    /\ feeCalls[i].ret.fee_percent = DefaultFeePercent
    /\ feeCalls[i].ret.fee_fixed = DefaultFeeFixed
    /\ admin_settings = {}

\* C4: a getFees() call that falls back to the default does not populate the
\* cache: the step leaves cachedSettings as it was, and cachedSettings only
\* ever holds an object returned for a fetched row; a call that starts while
\* cachedSettings is null sends a fresh request, and returns the stored row
\* when the request yields it.
C4_FallbackNotCached ==
  [][/\ \A i \in 1 .. Len(feeCalls) :
          /\ FallbackStep(i) => cachedSettings' = cachedSettings
          /\ RowStep(i) =>
               /\ feeCalls'[i].ret.fee_percent = feeCalls[i].resp.row.fee_percent
               /\ feeCalls'[i].ret.fee_fixed = feeCalls[i].resp.row.fee_fixed
     /\ (Len(feeCalls') = Len(feeCalls) + 1 /\ cachedSettings = NULL) =>
          /\ feeCalls'[Len(feeCalls')].pc = "requested"
          /\ feeCalls'[Len(feeCalls')].fetched
     /\ cachedSettings' # NULL =>
          \E i \in 1 .. Len(feeCalls') :
            /\ feeCalls'[i].pc = "returned" /\ ~feeCalls'[i].fallback
            /\ feeCalls'[i].fetched /\ feeCalls'[i].ret = cachedSettings']_vars

\* The Dashboard's call fell back; the next call, started after it, fetched
\* again and returned the stored row.
C4_Witness ==
  /\ Len(feeCalls) >= 2
  /\ feeCalls[1].caller = "Dashboard"
  /\ feeCalls[1].pc = "returned" /\ feeCalls[1].fallback
  /\ feeCalls[2].pc = "returned" /\ feeCalls[2].fetched
  /\ ~feeCalls[2].fallback
  /\ feeCalls[2].ret.fee_percent # DefaultFeePercent
  /\ cachedSettings = feeCalls[2].ret

\* C5, as stated: when getFees() is called twice, the second call returns the
\* identical object the first call returned, without a backend request.
C5_SecondCallIdentical ==
  (/\ Len(feeCalls) >= 2
   /\ feeCalls[1].pc = "returned"
   /\ feeCalls[2].pc = "returned")
    => /\ feeCalls[2].ret = feeCalls[1].ret
       /\ ~feeCalls[2].fetched

\* C5, amended: when the first getFees() call has returned the stored row
\* before the second call starts, the second call returns the identical
\* object without a backend request, whatever admin_settings holds then;
\* when the first call fell back to the default or is still in flight, the
\* second call sends its own request.
C5_CacheHitAfterRow ==
  [][(Len(feeCalls) = 1 /\ Len(feeCalls') = 2) =>
       IF feeCalls[1].pc = "returned" /\ ~feeCalls[1].fallback
         THEN /\ feeCalls'[2].pc = "returned"
              /\ ~feeCalls'[2].fetched
              /\ feeCalls'[2].ret = feeCalls[1].ret
         ELSE /\ feeCalls'[2].pc = "requested"
              /\ feeCalls'[2].fetched]_vars

\* The second call returned the first call's object although admin_settings
\* no longer holds that row.
C5_Witness ==
  /\ Len(feeCalls) >= 2
  /\ feeCalls[1].pc = "returned" /\ ~feeCalls[1].fallback
  /\ feeCalls[2].pc = "returned" /\ ~feeCalls[2].fetched
  /\ feeCalls[2].ret = feeCalls[1].ret
  /\ \A r \in admin_settings : r.fee_percent # feeCalls[2].ret.fee_percent

\* C6: once cachedSettings holds a value, the fees it holds never change for
\* the rest of the process, and no call that starts after that sends a
\* request.
C6_CacheNeverChanges ==
  [][cachedSettings # NULL =>
       /\ cachedSettings' # NULL
       /\ cachedSettings'.fee_percent = cachedSettings.fee_percent
       /\ cachedSettings'.fee_fixed = cachedSettings.fee_fixed
       /\ Len(feeCalls') = Len(feeCalls) + 1 =>
            ~feeCalls'[Len(feeCalls')].fetched]_vars

\* C7: after a successful add or edit, the stored payout is
\* calculatePayout(stored price, fee_percent, fee_fixed) for the fees that
\* the modal's getFees() call returns, and equals the previewed payout.
C7_PayoutUsesReturnedFees ==
  (/\ lastWrite # NULL
   /\ lastWrite.feeCall # 0
   /\ feeCalls[lastWrite.feeCall].pc = "returned")
    => /\ lastWrite.payout =
            calculatePayout(lastWrite.price,
                            feeCalls[lastWrite.feeCall].ret.fee_percent,
                            feeCalls[lastWrite.feeCall].ret.fee_fixed)
       /\ lastWrite.payout = lastWrite.preview

\* The step in which handleCreateSale call c ends after a failed insert.
InsertFailedStep(c) ==
  /\ saleCalls[c].pc = "insertServed"
  /\ ~saleCalls[c].saleOk
  /\ saleCalls'[c].pc # "insertServed"

\* C8: in handleCreateSale the listing is deleted only after the sale insert
\* has succeeded.  A failed insert changes neither table; the call then ends
\* without sending a delete, leaves both tables and the admin's list as they
\* are, and sets the error message and no success message.
C8_InsertFailure ==
  [][\A c \in 1 .. Len(saleCalls) :
       /\ (saleCalls[c].pc = "insert" /\ saleCalls'[c].pc = "insertServed"
             /\ ~saleCalls'[c].saleOk)
            => /\ user_sales' = user_sales
               /\ user_products' = user_products
       /\ InsertFailedStep(c) =>
            /\ saleCalls'[c].pc = "done"
            /\ ~saleCalls'[c].deleteSent
            /\ user_sales' = user_sales
            /\ user_products' = user_products
            /\ adminProducts' = adminProducts
            /\ adminError' # NoMsg
            /\ successMessage' = successMessage
       /\ saleCalls'[c].deleteSent => saleCalls'[c].saleOk]_vars

\* A call has ended after a failed insert: no sale, the listing stored and
\* listed, the error shown and no success message.
C8_Witness ==
  \E c \in 1 .. Len(saleCalls) :
    /\ saleCalls[c].pc = "done" /\ ~saleCalls[c].saleOk
    /\ ~saleCalls[c].deleteSent
    /\ user_sales = {}
    /\ \E r \in user_products : r.id = saleCalls[c].product.id
    /\ \E k \in 1 .. Len(adminProducts) :
         adminProducts[k].id = saleCalls[c].product.id
    /\ adminError # NoMsg
    /\ successMessage = NoMsg

\* C9: if the sale insert succeeds and the delete of the listing fails,
\* nothing is rolled back: the failed delete changes neither table, and the
\* call ends with the sale row stored, both tables and the admin's list as
\* they are, the error message set and no success message.
C9_DeleteFailure ==
  [][\A c \in 1 .. Len(saleCalls) :
       /\ (saleCalls[c].pc = "delete" /\ saleCalls'[c].pc = "deleteServed"
             /\ ~saleCalls'[c].deleteOk)
            => /\ user_sales' = user_sales
               /\ user_products' = user_products
       /\ (saleCalls[c].pc = "deleteServed" /\ ~saleCalls[c].deleteOk
             /\ saleCalls'[c].pc = "done")
            => /\ saleCalls[c].saleOk
               /\ \E s \in user_sales' :
                    s.original_product_id = saleCalls[c].product.id
               /\ user_sales' = user_sales
               /\ user_products' = user_products
               /\ adminProducts' = adminProducts
               /\ adminError' # NoMsg
               /\ successMessage' = successMessage]_vars

\* A call has ended after a failed delete: the sale and the listing are both
\* stored, the listing is still listed, the error is shown and no success
\* message.
C9_Witness ==
  \E c \in 1 .. Len(saleCalls) :
    /\ saleCalls[c].pc = "done" /\ saleCalls[c].saleOk
    /\ saleCalls[c].deleteSent /\ ~saleCalls[c].deleteOk
    /\ \E s \in user_sales : s.original_product_id = saleCalls[c].product.id
    /\ \E r \in user_products : r.id = saleCalls[c].product.id
    /\ \E k \in 1 .. Len(adminProducts) :
         adminProducts[k].id = saleCalls[c].product.id
    /\ adminError # NoMsg
    /\ successMessage = NoMsg

\* C10: every user_sales row is created by the admin create-sale action
\* only, has status 'completed' and original_product_id the id of its
\* listing, and its user_id, product_id, name, size, price, image_url and
\* payout equal those of that listing as stored in user_products at the
\* moment the sale is inserted.
C10_SaleMatchesStoredListing ==
  [][\A s \in user_sales' \ user_sales :
       /\ s.status = "completed"
       /\ \E c \in 1 .. Len(saleCalls) :
            /\ saleCalls[c].pc = "insert"
            /\ saleCalls'[c].pc = "insertServed"
            /\ s.original_product_id = saleCalls[c].product.id
       /\ \E r \in user_products :
            /\ r.id = s.original_product_id
            /\ r.user_id = s.user_id
            /\ r.product_id = s.product_id
            /\ r.name = s.name
            /\ r.size = s.size
            /\ r.price = s.price
            /\ r.image_url = s.image_url
            /\ r.payout = s.payout]_vars

\* C18: calculatePayout is monotone on its valid domain: with the other two
\* arguments kept, a higher price never gives a lower result, and a higher
\* feePercent or a higher feeFixed never gives a higher result.
C18_Monotone ==
  cDone =>
    /\ \A price \in CalcPrices :
         price >= cPrice =>
           calculatePayout(price, cFeePercent, cFeeFixed) >= cResult
    /\ \A feePercent \in CalcPercents :
         feePercent >= cFeePercent =>
           calculatePayout(cPrice, feePercent, cFeeFixed) <= cResult
    /\ \A feeFixed \in CalcFixed :
         feeFixed >= cFeeFixed =>
           calculatePayout(cPrice, cFeePercent, feeFixed) <= cResult

\* A result that a higher price raises and a higher fee of either kind
\* lowers.
C18_Witness ==
  /\ cDone
  /\ cPrice > 0 /\ cPrice < MaxPrice
  /\ cFeePercent < PctDen /\ cFeeFixed < MaxFeeFixed
  /\ calculatePayout(cPrice + 1, cFeePercent, cFeeFixed) > cResult
  /\ calculatePayout(cPrice, cFeePercent + 1, cFeeFixed) < cResult
  /\ calculatePayout(cPrice, cFeePercent, cFeeFixed + 1) < cResult

\* C19: no listing is converted twice: for every listing id at most one
\* user_sales row has that id as its original_product_id.
C19_AtMostOneSalePerListing ==
  \A s, t \in user_sales :
    s.original_product_id = t.original_product_id => s = t

\* Listing b is listing a with, at most, another price and payout.
SameButPriceAndPayout(a, b) ==
  /\ b.id = a.id
  /\ b.user_id = a.user_id
  /\ b.product_id = a.product_id
  /\ b.name = a.name
  /\ b.size = a.size
  /\ b.image_url = a.image_url
  /\ b.original_price = a.original_price
  /\ b.sku = a.sku

\* C20: a successful edit changes only the price and payout of the listing
\* whose id was edited: in user_products no row appears or disappears, every
\* row keeps its other fields and every other row is unchanged; the same
\* holds position by position in the Dashboard's list, which keeps its
\* length and order.  A failed edit changes neither user_products nor the
\* list, does not close the modal, and sets the error message.
C20_EditFrame ==
  [][editSubmit # NULL =>
       /\ (editSubmit.pc = "sent" /\ editSubmit' # NULL
             /\ editSubmit'.result = "updated") =>
            /\ \A r \in user_products :
                 \E q \in user_products' :
                   /\ SameButPriceAndPayout(r, q)
                   /\ r.id # editSubmit.product.id => q = r
                   /\ r.id = editSubmit.product.id =>
                        /\ q.price = editSubmit.price.val
                        /\ q.payout = editSubmit.payout
            /\ Cardinality(user_products') = Cardinality(user_products)
       /\ (editSubmit.pc = "sent" /\ editSubmit' # NULL
             /\ editSubmit'.result = "error") =>
            user_products' = user_products
       /\ (editSubmit.pc = "served" /\ editSubmit.result = "updated"
             /\ editSubmit' = NULL) =>
            /\ user_products' = user_products
            /\ Len(products') = Len(products)
            /\ \A k \in 1 .. Len(products) :
                 /\ SameButPriceAndPayout(products[k], products'[k])
                 /\ products[k].id # editSubmit.product.id =>
                      products'[k] = products[k]
                 /\ products[k].id = editSubmit.product.id =>
                      /\ products'[k].price = editSubmit.price.val
                      /\ products'[k].payout = editSubmit.payout
       /\ (editSubmit.pc = "served" /\ editSubmit.result = "error"
             /\ editSubmit' = NULL) =>
            /\ user_products' = user_products
            /\ products' = products
            /\ editOpen' = editOpen
            /\ editingProduct' = editingProduct
            /\ editError' # NoMsg]_vars

\* An edit of listing l0 to the price 10 has completed while the seller has
\* two listings: l0 has the new price in the table and in the list, and the
\* other listing is in both.
C20_Witness ==
  /\ lastWrite # NULL
  /\ lastWrite.kind = "edit" /\ lastWrite.id = "l0" /\ lastWrite.price = 10
  /\ Len(products) = 2
  /\ products[1].id = "l0" /\ products[1].price = 10
  /\ products[1].original_price = InitialListing.original_price
  /\ products[2].id = "l1"
  /\ \E r \in user_products : r.id = "l0" /\ r.price = 10
  /\ \E r \in user_products : r.id = "l1"

\* C12: every listing inserted by the add-listing flow has a size that is an
\* in-stock size of the listing's own product, and an original_price equal
\* to the lowest in-stock price of that product and size.
C12_InsertedListingMatchesCatalog ==
  \A r \in user_products :
    r.id # InitialListing.id =>
      /\ \E s \in product_sizes :
           /\ s.product_id = r.product_id
           /\ s.size = r.size
           /\ s.status = "Skladom"
      /\ r.original_price = MarketPrice(r.product_id, r.size)

\* C11: the market price that the Dashboard holds for a listing of its list
\* is the lowest price among the product_sizes rows with the listing's
\* product_id and size and the status Skladom; a listing without such a row
\* has no market price.
C11_MarketPriceOfOwnPair ==
  \A k \in 1 .. Len(products) :
    MarketKey(products[k]) \in DOMAIN marketPrices =>
      \E r \in product_sizes :
        /\ r.product_id = products[k].product_id
        /\ r.size = products[k].size
        /\ r.status = "Skladom"
        /\ r.price = marketPrices[MarketKey(products[k])]
        /\ \A y \in product_sizes :
             (y.product_id = products[k].product_id
                /\ y.size = products[k].size /\ y.status = "Skladom")
               => r.price <= y.price

\* C13: a listing with a known market price m is flagged green exactly when
\* its price is at most m, with the savings when it is below m, and red with
\* the markup exactly when its price is above m; a listing without a known
\* market price has no flag and no delta.
C13_FlagFollowsMarketPrice ==
  \A k \in 1 .. Len(products) :
    LET product == products[k]
        flag == PriceFlag(product, marketPrices)
    IN IF MarketKey(product) \in DOMAIN marketPrices
         THEN LET m == marketPrices[MarketKey(product)]
              IN /\ (product.price <= m) <=> (flag.priceIndicator = "green")
                 /\ (product.price > m) <=> (flag.priceIndicator = "red")
                 /\ product.price < m =>
                      (flag.sign = "-" /\ flag.delta = m - product.price)
                 /\ product.price > m =>
                      (flag.sign = "+" /\ flag.delta = product.price - m)
                 /\ product.price = m => flag.sign = ""
         ELSE flag.priceIndicator = "" /\ flag.sign = ""

\* C14: a price equal to the current lowest in-stock price of the listing's
\* product and size is never shown with the markup warning: not in the add
\* modal (product and size chosen, price typed), not in the edit modal
\* (valid price in the input), not in the grid of the Dashboard.
C14_NoMarkupAtMarketPrice ==
  /\ (addOpen /\ addSelected # NULL /\ addSize # ""
        /\ ~parseFloat(addNewPrice).nan
        /\ parseFloat(addNewPrice).val = MarketPrice(addSelected.id, addSize))
       => AddPriceColor(addNewPrice, addSizes, addSize) # "text-red-600"
  /\ (EditShown /\ editIsPriceValid /\ ~parseFloat(editNewPrice).nan
        /\ parseFloat(editNewPrice).val
             = MarketPrice(editingProduct.product_id, editingProduct.size))
       => editPriceColor # "text-red-600"
  /\ \A k \in 1 .. Len(products) :
       products[k].price
           = MarketPrice(products[k].product_id, products[k].size)
         => PriceFlag(products[k], marketPrices).priceIndicator # "red"

\* C15: once every admin check of App has been answered, isAdmin is true
\* only for a signed-in user who has a row in admin_users: it is false when
\* nobody is signed in, and it is not left true by the check of another
\* user, whatever the order of sign-ins, sign-outs and answers.
C15_IsAdminOnlyForAdmin ==
  ((\A c \in 1 .. Len(appChecks) : appChecks[c].pc # "sent") /\ appIsAdmin)
    => (appUser # NoMsg /\ appUser \in admin_users)

C17_SaveKeepsEmail ==
  [][\A r \in profiles' \ profiles :
       /\ r.id = session
       /\ IF \E old \in profiles : old.id = r.id
            THEN \E old \in profiles : old.id = r.id /\ old.email = r.email
            ELSE r.email = AuthEmail(session)]_vars

SellerQuiet ==
  /\ dashPc = "ready"
  /\ addSubmit = NULL /\ editSubmit = NULL /\ delCall = NULL
  /\ addSizeReqs = {} /\ editMarketReqs = {}
  /\ \A c \in 1 .. Len(fpCalls) : fpCalls[c].pc = "done"
  /\ \A i \in 1 .. Len(feeCalls) : feeCalls[i].pc = "returned"

\* C22: whenever no request of the seller is in flight (and the Dashboard
\* got its user and shows no fetch or delete error), the Dashboard's list
\* holds exactly the signed-in user's rows of user_products, each once, with
\* the price and payout stored.
C22_ListMatchesTable ==
  (SellerQuiet /\ dashUser # NoMsg /\ dashError = NoMsg)
    => /\ {products[k] : k \in 1 .. Len(products)}
            = SelectOwn(user_products, session)
       /\ Len(products) = Cardinality(SelectOwn(user_products, session))

\* Whether the admin's list shows a row with this id.
C23_Listed(list, id) == \E k \in 1 .. Len(list) : list[k].id = id

\* C23: once handleCreateSale has succeeded for a listing (insert and delete
\* both succeeded and the call has finished), the listing is absent from the
\* admin's list and no step other than the return of a refresh puts it back,
\* whatever the interleaving of create-sale calls on other rows.
C23_SoldStaysAbsent ==
  [][\A c \in 1 .. Len(saleCalls) :
       LET id == saleCalls[c].product.id
       IN /\ (c \in 1 .. Len(saleCalls') /\ saleCalls[c].pc # "done"
              /\ saleCalls'[c].pc = "done" /\ saleCalls'[c].deleteOk)
               => ~C23_Listed(adminProducts', id)
          /\ (saleCalls[c].pc = "done" /\ saleCalls[c].deleteOk
              /\ ~C23_Listed(adminProducts, id)
              /\ adminFetches' >= adminFetches)
               => ~C23_Listed(adminProducts', id)]_vars

\* C24: while the edit modal stays open for the same listing, the arrival of
\* a market-price response or of the fees leaves the price in the input as
\* it was typed.
C24_TypedPriceKept ==
  [][(/\ EditShown
      /\ editOpen'
      /\ editingProduct' = editingProduct
      /\ \/ editMarketReqs' # editMarketReqs
         \/ feeCalls' # feeCalls
         \/ editFees' # editFees)
       => editNewPrice' = editNewPrice]_vars

\* C25: the market price the edit modal uses as its threshold is the lowest
\* in-stock price of the listing now edited, or absent; it is never the
\* value fetched for a listing edited before.
C25_MarketPriceOfEditedListing ==
  EditShown =>
    \/ editMarket = NoPrice
    \/ editMarket = MarketPrice(editingProduct.product_id, editingProduct.size)

\* C26: while the edit modal is shown, isPriceValid is true exactly when the
\* price in the input parses to a number greater than 0, so the save button
\* is enabled exactly when the displayed price is valid.
C26_ValidFlagMatchesInput ==
  EditShown => (editIsPriceValid <=> ~InvalidPrice(editNewPrice))

\* C27: whenever a backend call of a screen returns an error other than
\* "no row", the error message of that screen becomes non-null.  Here for
\* the market-price fetch of the edit modal: the request of the mounted
\* modal is answered, a row exists, and the answer is an error (the market
\* price is not taken over).
C27_ErrorShown ==
  [][\A req \in editMarketReqs :
       (/\ req \notin editMarketReqs'
        /\ EditMounted(req.inst)
        /\ MarketPrice(req.product_id, req.size) # NoPrice
        /\ editMarket' # MarketPrice(req.product_id, req.size))
         => editError' # NoMsg]_vars

\* C28: the results shown can belong to an older term.  The answer to a
\* search request replaces the list with the results of the request's own
\* term, whatever the term is by then; and with no timer pending and no
\* request in flight the list stays as it is until the term changes.
C28_StaleResultsStay ==
  [][/\ \A c \in 1 .. Len(searchCalls) :
          (searchCalls[c].pc = "sent" /\ searchCalls'[c].pc = "done")
            => existingProducts' = SearchResults(searchCalls[c].term)
     /\ (/\ searchTimer = NULL
         /\ \A c \in 1 .. Len(searchCalls) : searchCalls[c].pc # "sent"
         /\ searchTerm' = searchTerm)
          => existingProducts' = existingProducts]_vars

\* Two requests were in flight, for "n1" and then for "n2"; both were
\* answered, the earlier one last: the term is "n2", the list holds the
\* results of "n1", and nothing is pending.
C28_Witness ==
  /\ searchTerm = "n2"
  /\ Len(searchCalls) = 2
  /\ searchCalls[1] = [term |-> "n1", pc |-> "done"]
  /\ searchCalls[2] = [term |-> "n2", pc |-> "done"]
  /\ searchTimer = NULL
  /\ existingProducts = SearchResults("n1")
  /\ existingProducts # SearchResults("n2")

\* C29: a search request is sent only when the debounce timer fires, for the
\* current term, which has at least 2 characters; a pending timer is always
\* the one of the current term (every change cancels the timer before it);
\* a timer sends at most one request; a timer that fires for a term shorter
\* than 2 characters sends nothing and clears the results.
C29_DebouncedSearch ==
  [][/\ searchTimer' # NULL => searchTimer'.term = searchTerm'
     /\ Len(searchCalls') > Len(searchCalls)
          => /\ Len(searchCalls') = Len(searchCalls) + 1
             /\ searchTimer # NULL
             /\ searchTimer' = NULL
             /\ searchTimer.term = searchTerm
             /\ Len(searchTerm) >= 2
             /\ searchCalls'[Len(searchCalls')] =
                  [term |-> searchTerm, pc |-> "sent"]
     /\ (searchTimer # NULL /\ searchTimer' = NULL
         /\ Len(searchTimer.term) < 2)
          => /\ searchCalls' = searchCalls
             /\ existingProducts' = <<>>]_vars

\* After "n1" and then "n2" were typed, one request is in flight: for the
\* final term "n2", with the earlier results of "n1" still shown.
C29_Witness ==
  /\ searchTerm = "n2"
  /\ searchTimer = NULL
  /\ Len(searchCalls) = 2
  /\ searchCalls[1] = [term |-> "n1", pc |-> "done"]
  /\ searchCalls[2] = [term |-> "n2", pc |-> "sent"]
  /\ existingProducts = SearchResults("n1")

\* C30: for a signed-in admin who opens the app at /admin, AdminDashboard is
\* eventually shown (unless an admin check fails): the route does not send
\* the admin to /dashboard because the check was still in flight when
\* loading ended.
C30_AdminReachesAdminDashboard ==
  (session = AdminId /\ location = "/admin" /\ appLoading)
    => <>(\/ AdminShown
          \/ \E c \in 1 .. Len(appChecks) :
               appChecks[c].pc \in {"error", "throw"})

============================================================================
